---- MODULE Spec2Model ----
(***************************************************************************)
(* A model of the web page analyzer service                                *)
(* (internal/domain/services/analyzer_service.go): URL validation, link    *)
(* classification and probing, login form and HTML version detection, and  *)
(* the concurrent link aggregation of AnalyzeURL; of the rate limiter of   *)
(* the HTTP middleware (internal/presentation/middleware/middleware.go);   *)
(* and of the Analysis entity and the analysis use case                    *)
(* (internal/application/usecases/analysis_usecase.go).                    *)
(*                                                                         *)
(* A Go string is a sequence of one-character strings.  The alphabet is    *)
(* ASCII: letters, digits, "+", "-", ".", ":", "/", "?", "#" and the       *)
(* control character "\n", one byte each, and WideChar, one character     *)
(* whose UTF-8 encoding takes two bytes; len(s) counts bytes.              *)
(***************************************************************************)
EXTENDS Integers, Sequences, FiniteSets, TLC

(***************************************************************************)
(* strings                                                                 *)
(***************************************************************************)
Lowers ==
    << "a", "b", "c", "d", "e", "f", "g", "h", "i", "j", "k", "l", "m",
       "n", "o", "p", "q", "r", "s", "t", "u", "v", "w", "x", "y", "z" >>

Uppers ==
    << "A", "B", "C", "D", "E", "F", "G", "H", "I", "J", "K", "L", "M",
       "N", "O", "P", "Q", "R", "S", "T", "U", "V", "W", "X", "Y", "Z" >>

Range(f) == { f[i] : i \in DOMAIN f }

LetterChars == Range(Lowers) \cup Range(Uppers)

\* the characters getScheme lets through after the first position
SchemeExtraChars == { "0", "1", "2", "3", "4", "5", "6", "7", "8", "9", "+", "-", "." }

DigitChars == { "0", "1", "2", "3", "4", "5", "6", "7", "8", "9" }

\* stringContainsCTLByte: a byte below ' ' or 0x7f
CTLChars == { "\n" }

\* a character outside ASCII (U+00E9), two bytes in a Go string
WideChar == "U+00E9"

\* len(s) of a Go string: its bytes
len(s) == Len(s) + Cardinality({ i \in 1..Len(s) : s[i] = WideChar })

ToLowerChar(c) ==
    IF c \in Range(Uppers)
    THEN Lowers[CHOOSE i \in DOMAIN Uppers : Uppers[i] = c]
    ELSE c

ToLower(s) == [ i \in 1..Len(s) |-> ToLowerChar(s[i]) ]

HasPrefix(s, p) == Len(s) >= Len(p) /\ SubSeq(s, 1, Len(p)) = p

HasSuffix(s, p) == Len(s) >= Len(p) /\ SubSeq(s, Len(s) - Len(p) + 1, Len(s)) = p

SetMin(I) == CHOOSE i \in I : \A j \in I : i <= j

SetMax(I) == CHOOSE i \in I : \A j \in I : i >= j

MinOrZero(I) == IF I = {} THEN 0 ELSE SetMin(I)

MaxOrZero(I) == IF I = {} THEN 0 ELSE SetMax(I)

\* strings.Index / strings.LastIndex for a one-character needle; 0 is Go's -1
Index(s, c) == MinOrZero({ i \in 1..Len(s) : s[i] = c })

LastIndex(s, c) == MaxOrZero({ i \in 1..Len(s) : s[i] = c })

Count(s, c) == Cardinality({ i \in 1..Len(s) : s[i] = c })

Contains(s, sub) ==
    \E i \in 0..(Len(s) - Len(sub)) : SubSeq(s, i + 1, i + Len(sub)) = sub

\* strings.Cut(s, c) with the separator at position i (0: not found)
CutBeforeAt(s, i) == IF i = 0 THEN s ELSE SubSeq(s, 1, i - 1)

CutAfterAt(s, i) == IF i = 0 THEN << >> ELSE SubSeq(s, i + 1, Len(s))

CutBefore(s, c) == CutBeforeAt(s, Index(s, c))

CutAfter(s, c) == CutAfterAt(s, Index(s, c))

\* strings.Repeat(c, n)
Repeat(c, n) == [ i \in 1..n |-> c ]

(***************************************************************************)
(* net/url as the service uses it                                          *)
(***************************************************************************)
EmptyURL ==
    [ ok |-> TRUE, Scheme |-> << >>, Opaque |-> << >>, Host |-> << >>,
      Path |-> << >>, ForceQuery |-> FALSE, RawQuery |-> << >>,
      Fragment |-> << >>, OmitHost |-> FALSE ]

ParseError == [ EmptyURL EXCEPT !.ok = FALSE ]

\* getScheme: the position of the first character that ends the scan, 0 if none
SchemeStop(s) ==
    MinOrZero({ i \in 1..Len(s) :
                  \/ s[i] = ":"
                  \/ s[i] \in SchemeExtraChars /\ i = 1
                  \/ s[i] \notin LetterChars \cup SchemeExtraChars })

\* getScheme with the scan stopped at position k: [ok, scheme, rest]
getSchemeAt(s, k) ==
    IF k = 0
    THEN [ ok |-> TRUE, scheme |-> << >>, rest |-> s ]
    ELSE IF s[k] # ":"
    THEN [ ok |-> TRUE, scheme |-> << >>, rest |-> s ]
    ELSE IF k = 1
    THEN [ ok |-> FALSE, scheme |-> << >>, rest |-> << >> ]
    ELSE [ ok |-> TRUE, scheme |-> SubSeq(s, 1, k - 1), rest |-> SubSeq(s, k + 1, Len(s)) ]

getScheme(s) == getSchemeAt(s, SchemeStop(s))

\* validOptionalPort: "" or ":" followed by digits
validOptionalPort(port) ==
    \/ port = << >>
    \/ port[1] = ":" /\ \A i \in 2..Len(port) : port[i] \in DigitChars

\* parseHost (no IPv6 literal in the alphabet): the port after the last colon, at i
parseHostAt(host, i) == i = 0 \/ validOptionalPort(SubSeq(host, i, Len(host)))

parseHostOK(host) == parseHostAt(host, LastIndex(host, ":"))

\* parse: the authority auth0 with its first "/" at i, then setPath
parseAuthorityAt(u0, auth0, i) ==
    IF ~parseHostOK(CutBeforeAt(auth0, i)) THEN ParseError
    ELSE [ u0 EXCEPT !.Host = CutBeforeAt(auth0, i),
                     !.Path = IF i = 0 THEN << >> ELSE SubSeq(auth0, i, Len(auth0)) ]

\* parse after the query is split off: opaque, authority, path
parseHier(u0, rest) ==
    IF ~HasPrefix(rest, << "/" >>) /\ u0.Scheme # << >>
    THEN [ u0 EXCEPT !.Opaque = rest ]
    ELSE IF ~HasPrefix(rest, << "/" >>) /\ Contains(CutBefore(rest, "/"), << ":" >>)
    THEN ParseError
    ELSE IF (u0.Scheme # << >> \/ ~HasPrefix(rest, << "/", "/", "/" >>))
              /\ HasPrefix(rest, << "/", "/" >>)
    THEN parseAuthorityAt(u0, SubSeq(rest, 3, Len(rest)),
                          Index(SubSeq(rest, 3, Len(rest)), "/"))
    ELSE IF u0.Scheme # << >> /\ HasPrefix(rest, << "/" >>)
    THEN [ u0 EXCEPT !.OmitHost = TRUE, !.Path = rest ]
    ELSE [ u0 EXCEPT !.Path = rest ]

\* parse after getScheme: ForceQuery or the cut at the first "?"
parseQuery(scheme, rest, force) ==
    parseHier([ EmptyURL EXCEPT !.Scheme = scheme, !.ForceQuery = force,
                                !.RawQuery = IF force THEN << >> ELSE CutAfter(rest, "?") ],
              IF force THEN SubSeq(rest, 1, Len(rest) - 1) ELSE CutBefore(rest, "?"))

parseScheme(g) ==
    IF ~g.ok THEN ParseError
    ELSE parseQuery(ToLower(g.scheme), g.rest,
                    HasSuffix(g.rest, << "?" >>) /\ Count(g.rest, "?") = 1)

\* url.parse(rawURL, viaRequest = false), rawURL without its fragment
parseNoFragment(s) ==
    IF \E i \in 1..Len(s) : s[i] \in CTLChars THEN ParseError
    ELSE parseScheme(getScheme(s))

setFragment(u, frag) == IF ~u.ok THEN u ELSE [ u EXCEPT !.Fragment = frag ]

\* url.Parse(rawURL) with the first "#" at position i
ParseAt(s, i) == setFragment(parseNoFragment(CutBeforeAt(s, i)), CutAfterAt(s, i))

\* url.Parse(rawURL)
Parse(s) == ParseAt(s, Index(s, "#"))

\* (*URL).Hostname: the host without its port
Hostname(u) == CutBefore(u.Host, ":")

\* escape(s, encodePath) on the alphabet: "?", "#" and WideChar are escaped
EscapePathChar(c) ==
    IF c = "?" THEN << "%", "3", "F" >>
    ELSE IF c = "#" THEN << "%", "2", "3" >>
    ELSE IF c = WideChar THEN << "%", "C", "3", "%", "A", "9" >>
    ELSE << c >>

RECURSIVE EscapePath(_)
EscapePath(s) ==
    IF s = << >> THEN << >> ELSE EscapePathChar(Head(s)) \o EscapePath(Tail(s))

\* strings.Split(s, "/")
RECURSIVE SplitSlash(_)
SplitSlash(s) ==
    IF \A i \in 1..Len(s) : s[i] # "/" THEN << s >>
    ELSE << CutBefore(s, "/") >> \o SplitSlash(CutAfter(s, "/"))

\* resolvePath at "..": dst cut at its last "/" (at i), or emptied
dropLast(dst, i) == IF i = 0 THEN << >> ELSE SubSeq(dst, 1, i - 1)

\* the loop of resolvePath: dst (after the leading "/") and first, over the elements
RECURSIVE ResolveElems(_, _, _)
ResolveElems(elems, dst, first) ==
    IF elems = << >> THEN dst
    ELSE IF Head(elems) = << "." >>
    THEN ResolveElems(Tail(elems), dst, FALSE)
    ELSE IF Head(elems) = << ".", "." >>
    THEN ResolveElems(Tail(elems), dropLast(dst, LastIndex(dst, "/")),
                      first \/ \A i \in 1..Len(dst) : dst[i] # "/")
    ELSE ResolveElems(Tail(elems),
                      (IF first THEN dst ELSE dst \o << "/" >>) \o Head(elems), FALSE)

\* resolvePath: the "/" written first is dropped when a second one follows
trimSlash(r) == IF Len(r) > 1 /\ r[2] = "/" THEN Tail(r) ELSE r

\* resolvePath once the path is split at "/"
resolveSplit(elems) ==
    trimSlash(<< "/" >> \o ResolveElems(elems, << >>, TRUE)
                \o (IF elems[Len(elems)] \in { << "." >>, << ".", "." >> }
                    THEN << "/" >> ELSE << >>))

resolveFull(full) == IF full = << >> THEN << >> ELSE resolveSplit(SplitSlash(full))

\* resolvePath(base, ref)
resolvePath(base, ref) ==
    resolveFull(IF ref = << >> THEN base
                ELSE IF ref[1] # "/" THEN SubSeq(base, 1, LastIndex(base, "/")) \o ref
                ELSE ref)

\* (*URL).ResolveReference(ref): a ref with a scheme or a host keeps its own
\* host, any other is resolved against u
ResolveReference(u, ref) ==
    IF ref.Scheme # << >> \/ ref.Host # << >>
    THEN [ ref EXCEPT !.Scheme = IF @ = << >> THEN u.Scheme ELSE @,
                      !.Path = resolvePath(EscapePath(ref.Path), << >>) ]
    ELSE IF ref.Opaque # << >>
    THEN [ ref EXCEPT !.Scheme = u.Scheme, !.Host = << >>, !.Path = << >> ]
    ELSE IF ref.Path = << >> /\ ~ref.ForceQuery /\ ref.RawQuery = << >>
    THEN IF u.Opaque # << >>
         THEN [ ref EXCEPT !.Scheme = u.Scheme, !.RawQuery = u.RawQuery,
                           !.Fragment = IF ref.Fragment = << >> THEN u.Fragment ELSE @,
                           !.Opaque = u.Opaque ]
         ELSE [ ref EXCEPT !.Scheme = u.Scheme, !.RawQuery = u.RawQuery,
                           !.Fragment = IF ref.Fragment = << >> THEN u.Fragment ELSE @,
                           !.Host = u.Host,
                           !.Path = resolvePath(EscapePath(u.Path), << >>) ]
    ELSE IF ref.Path = << >> /\ u.Opaque # << >>
    THEN [ ref EXCEPT !.Scheme = u.Scheme, !.Opaque = u.Opaque ]
    ELSE [ ref EXCEPT !.Scheme = u.Scheme, !.Host = u.Host,
                      !.Path = resolvePath(EscapePath(u.Path), EscapePath(ref.Path)) ]

\* (*URL).String: scheme, authority and path written to buf
writeScheme(u) == IF u.Scheme # << >> THEN u.Scheme \o << ":" >> ELSE << >>

writeAuthority(u) ==
    IF (u.Scheme # << >> \/ u.Host # << >>) /\ ~(u.OmitHost /\ u.Host = << >>)
    THEN (IF u.Host # << >> \/ u.Path # << >> THEN << "/", "/" >> ELSE << >>) \o u.Host
    ELSE << >>

writePath(u, buf, path) ==
    IF path # << >> /\ path[1] # "/" /\ u.Host # << >>
    THEN buf \o << "/" >> \o path
    ELSE IF buf = << >> /\ Contains(CutBefore(path, "/"), << ":" >>)
    THEN << ".", "/" >> \o path
    ELSE buf \o path

writeQuery(u) ==
    (IF u.ForceQuery \/ u.RawQuery # << >> THEN << "?" >> \o u.RawQuery ELSE << >>)
      \o (IF u.Fragment # << >> THEN << "#" >> \o u.Fragment ELSE << >>)

\* (*URL).String
URLString(u) ==
    (IF u.Opaque # << >> THEN writeScheme(u) \o u.Opaque
     ELSE writePath(u, writeScheme(u) \o writeAuthority(u), EscapePath(u.Path)))
      \o writeQuery(u)

(***************************************************************************)
(* constants of the service                                                *)
(***************************************************************************)
MaxURLLength == 2048

MaxHTMLDepth == 100

SupportedSchemes == { << "h", "t", "t", "p" >>, << "h", "t", "t", "p", "s" >> }

NoError == "nil"

\* func contains(slice []string, item string) bool
contains(slice, item) == item \in slice

\* ValidateURL without the check of the hostname
validateParsed_NoHostnameCheck(targetURL, u) ==
    IF targetURL = << >> THEN "URL cannot be empty"
    ELSE IF len(targetURL) > MaxURLLength THEN "URL too long"
    ELSE IF ~u.ok THEN "invalid URL format"
    ELSE IF u.Scheme = << >> \/ u.Host = << >> THEN "URL must include scheme and host"
    ELSE IF ~contains(SupportedSchemes, u.Scheme) THEN "only http, https schemes are supported"
    ELSE NoError

\* ValidateURL with u, err := url.Parse(targetURL)
validateParsed(targetURL, u) ==
    IF targetURL = << >> THEN "URL cannot be empty"
    ELSE IF len(targetURL) > MaxURLLength THEN "URL too long"
    ELSE IF ~u.ok THEN "invalid URL format"
    ELSE IF u.Scheme = << >> \/ u.Host = << >> THEN "URL must include scheme and host"
    ELSE IF ~contains(SupportedSchemes, u.Scheme) THEN "only http, https schemes are supported"
    ELSE IF Contains(Hostname(u), << ".", "." >>) THEN "invalid hostname format"
    ELSE NoError

\* func (s *analyzerService) ValidateURL(targetURL string) error
ValidateURL(targetURL) == validateParsed(targetURL, Parse(targetURL))

\* isInternalLink with hrefURL and baseURLParsed, the two url.Parse results
internalParsed(href, hrefURL, baseURLParsed) ==
    IF HasPrefix(href, << "#" >>) \/ HasPrefix(href, << "?" >>) THEN TRUE
    ELSE IF HasPrefix(href, << "/" >>) THEN TRUE
    ELSE IF ~hrefURL.ok THEN FALSE
    ELSE IF hrefURL.Scheme = << >> /\ hrefURL.Host = << >> THEN TRUE
    ELSE IF ~baseURLParsed.ok THEN FALSE
    ELSE hrefURL.Host = baseURLParsed.Host

\* func (p *htmlParser) isInternalLink(href string, baseURL string) bool
isInternalLink(href, baseURL) == internalParsed(href, Parse(href), Parse(baseURL))

sMailto == << "m", "a", "i", "l", "t", "o", ":" >>

sTel == << "t", "e", "l", ":" >>

\* the outcomes of checkLinkAccessibility before the cache lookup
Exempt == [ kind |-> "exempt", url |-> << >> ]

Unresolved == [ kind |-> "fail", url |-> << >> ]

ProbeOf(fullURL) == [ kind |-> "probe", url |-> fullURL ]

\* checkLinkAccessibility without the exemption of the schemes it cannot probe
targetParsed_ProbesAnyScheme(href, hrefURL, baseURLParsed) ==
    IF HasPrefix(href, << "#" >>) \/ HasPrefix(href, << "?" >>)
         \/ HasPrefix(href, sMailto) \/ HasPrefix(href, sTel)
    THEN Exempt
    ELSE IF ~hrefURL.ok THEN Unresolved
    ELSE IF hrefURL.Scheme = << >> /\ hrefURL.Host = << >>
    THEN IF ~baseURLParsed.ok THEN Unresolved
         ELSE ProbeOf(URLString(ResolveReference(baseURLParsed, hrefURL)))
    ELSE IF HasPrefix(href, << "/" >>)
    THEN IF ~baseURLParsed.ok THEN Unresolved
         ELSE ProbeOf(URLString([ EmptyURL EXCEPT !.Scheme = baseURLParsed.Scheme,
                                                  !.Host   = baseURLParsed.Host,
                                                  !.Path   = href ]))
    ELSE ProbeOf(href)

\* checkLinkAccessibility up to fullURL, with the two url.Parse results
targetParsed(href, hrefURL, baseURLParsed) ==
    IF HasPrefix(href, << "#" >>) \/ HasPrefix(href, << "?" >>)
         \/ HasPrefix(href, sMailto) \/ HasPrefix(href, sTel)
    THEN Exempt
    ELSE IF ~hrefURL.ok THEN Unresolved
    ELSE IF hrefURL.Scheme = << >> /\ hrefURL.Host = << >>
    THEN IF ~baseURLParsed.ok THEN Unresolved
         ELSE ProbeOf(URLString(ResolveReference(baseURLParsed, hrefURL)))
    ELSE IF HasPrefix(href, << "/" >>)
    THEN IF ~baseURLParsed.ok THEN Unresolved
         ELSE ProbeOf(URLString([ EmptyURL EXCEPT !.Scheme = baseURLParsed.Scheme,
                                                  !.Host   = baseURLParsed.Host,
                                                  !.Path   = href ]))
    ELSE IF ~contains(SupportedSchemes, hrefURL.Scheme) THEN Exempt
    ELSE ProbeOf(href)

\* checkLinkAccessibility up to the cache lookup: what the href resolves to.
\* kind "exempt": true without a probe; "fail": false without a probe;
\* "probe": url is the resolved absolute URL (fullURL), the cache key.
linkTarget(href, baseURL) == targetParsed(href, Parse(href), Parse(baseURL))

(***************************************************************************)
(* documents: the node tree html.Parse returns, in document order, each    *)
(* node with its depth (the document root is at depth 0)                   *)
(***************************************************************************)
Attr(key, val) == [ Key |-> key, Val |-> val ]

Element(tag, depth, attrs) ==
    [ Type |-> "element", Data |-> tag, depth |-> depth, Attr |-> attrs ]

\* the value of the first href attribute that is not empty, << >> if none
firstHref(attrs) ==
    LET I == { i \in 1..Len(attrs) : attrs[i].Key = "href" /\ attrs[i].Val # << >> }
    IN  IF I = {} THEN << >> ELSE attrs[SetMin(I)].Val

\* extractLinks' traversal: the hrefs of the links it builds, in document order
RECURSIVE anchorHrefs(_)
anchorHrefs(nodes) ==
    IF nodes = << >> THEN << >>
    ELSE LET n == Head(nodes)
         IN  IF n.depth <= MaxHTMLDepth /\ n.Data = "a" /\ firstHref(n.Attr) # << >>
             THEN << firstHref(n.Attr) >> \o anchorHrefs(Tail(nodes))
             ELSE anchorHrefs(Tail(nodes))

\* the <a> elements with a non-empty href that the traversal visits
AnchorCount(nodes) ==
    Cardinality({ i \in 1..Len(nodes) :
                    /\ nodes[i].Data = "a"
                    /\ nodes[i].depth <= MaxHTMLDepth
                    /\ \E j \in 1..Len(nodes[i].Attr) :
                         nodes[i].Attr[j].Key = "href" /\ nodes[i].Attr[j].Val # << >> })

\* the heading tags of extractHeadings' switch
HeadingTags == { "h1", "h2", "h3", "h4", "h5", "h6" }

\* headings[tag]++ on a Go map: a missing key counts from zero
increment(headings, tag) ==
    IF tag \in DOMAIN headings
    THEN [ headings EXCEPT ![tag] = @ + 1 ]
    ELSE headings @@ (tag :> 1)

\* a traversal that counts the headings at every depth
RECURSIVE extractHeadings_AnyDepth(_)
extractHeadings_AnyDepth(nodes) ==
    IF nodes = << >> THEN << >>
    ELSE LET n == nodes[Len(nodes)]
             headings == extractHeadings_AnyDepth(SubSeq(nodes, 1, Len(nodes) - 1))
         IN  IF n.Type = "element" /\ n.Data \in HeadingTags
             THEN increment(headings, n.Data)
             ELSE headings

\* extractHeadings' traversal: the map it returns, the empty map being << >>;
\* a node deeper than MaxHTMLDepth and all below it are skipped
RECURSIVE extractHeadings(_)
extractHeadings(nodes) ==
    IF nodes = << >> THEN << >>
    ELSE LET n == nodes[Len(nodes)]
             headings == extractHeadings(SubSeq(nodes, 1, Len(nodes) - 1))
         IN  IF n.depth <= MaxHTMLDepth /\ n.Type = "element" /\ n.Data \in HeadingTags
             THEN increment(headings, n.Data)
             ELSE headings

hrefSlashP == << "/", "p" >>

hrefRelP == << "p" >>

hrefExternal == << "h", "t", "t", "p", ":", "/", "/", "b", "/", "x" >>

hrefMailto == << "m", "a", "i", "l", "t", "o", ":", "t" >>

A(depth, href) == Element("a", depth, << Attr("href", href) >>)

\* response bodies: size is len(content), nodes the tree html.Parse builds of it
EmptyBody == [ size |-> 0, nodes |-> << >> ]

\* an external link that is probed, an external link that is exempt, an <a>
\* with an empty href and an <a> below the depth extractLinks descends to
BodyMixed ==
    [ size  |-> 60,
      nodes |-> << Element("html", 1, << >>), Element("body", 2, << >>),
                   A(3, hrefExternal), A(3, << >>), Element("p", 3, << >>),
                   Element("a", 4, << Attr("class", << "x" >>), Attr("href", hrefMailto) >>),
                   A(MaxHTMLDepth + 1, hrefSlashP) >> ]

\* two internal links that resolve to the same URL
BodyDuplicate ==
    [ size  |-> 50,
      nodes |-> << Element("html", 1, << >>), Element("body", 2, << >>),
                   A(3, hrefRelP), Element("a", 3, << >>), A(3, hrefSlashP) >> ]

Bodies == { EmptyBody, BodyMixed, BodyDuplicate }

urlValid == << "h", "t", "t", "p", ":", "/", "/", "a" >>

urlUnsupported == << "f", "t", "p", ":", "/", "/", "a" >>

TargetURLs == { urlValid, urlUnsupported }

(***************************************************************************)
(* hasLoginForm                                                            *)
(***************************************************************************)
\* a text node of the tree; nodes are listed in document order, so the first
\* child of nodes[i] is nodes[i + 1] when that node is one level deeper
TextNode(data, depth) ==
    [ Type |-> "text", Data |-> data, depth |-> depth, Attr |-> << >> ]

loginKeywords ==
    { << "l", "o", "g", "i", "n" >>,
      << "s", "i", "g", "n", "i", "n" >>,
      << "s", "i", "g", "n", "-", "i", "n" >>,
      << "s", "i", "g", "n", "_", "i", "n" >>,
      << "l", "o", "g", "-", "i", "n" >>,
      << "l", "o", "g", "_", "i", "n" >>,
      << "s", "i", "g", "n", " ", "i", "n" >>,
      << "l", "o", "g", " ", "i", "n" >>,
      << "l", "o", "g", "o", "n" >>,
      << "l", "o", "g", " ", "o", "n" >>,
      << "p", "a", "s", "s", "w", "o", "r", "d" >>,
      << "p", "a", "s", "s", "w", "d" >>,
      << "p", "w", "d" >>,
      << "p", "a", "s", "s" >>,
      << "u", "s", "e", "r", "n", "a", "m", "e" >>,
      << "u", "s", "e", "r", "i", "d" >>,
      << "u", "s", "e", "r", "_", "i", "d" >>,
      << "a", "u", "t", "h", "e", "n", "t", "i", "c", "a", "t", "e" >>,
      << "a", "u", "t", "h", "e", "n", "t", "i", "c", "a", "t", "i", "o", "n" >>,
      << "c", "r", "e", "d", "e", "n", "t", "i", "a", "l", "s" >>,
      << "c", "r", "e", "d", "e", "n", "t", "i", "a", "l" >>,
      << "f", "o", "r", "g", "o", "t", " ", "p", "a", "s", "s", "w", "o", "r", "d" >>,
      << "r", "e", "s", "e", "t", " ", "p", "a", "s", "s", "w", "o", "r", "d" >>,
      << "p", "a", "s", "s", "w", "o", "r", "d", " ", "r", "e", "s", "e", "t" >>,
      << "r", "e", "m", "e", "m", "b", "e", "r", " ", "m", "e" >>,
      << "s", "t", "a", "y", " ", "l", "o", "g", "g", "e", "d", " ", "i", "n" >> }

loginInputNames ==
    { << "u", "s", "e", "r", "n", "a", "m", "e" >>,
      << "u", "s", "e", "r", "i", "d" >>,
      << "u", "s", "e", "r", "_", "i", "d" >>,
      << "p", "a", "s", "s", "w", "o", "r", "d" >>,
      << "p", "a", "s", "s", "w", "d" >>,
      << "p", "w", "d" >>,
      << "p", "a", "s", "s" >>,
      << "p", "a", "s", "s", "p", "h", "r", "a", "s", "e" >>,
      << "l", "o", "g", "i", "n" >>,
      << "s", "i", "g", "n", "i", "n" >>,
      << "a", "u", "t", "h", "e", "n", "t", "i", "c", "a", "t", "e" >>,
      << "r", "e", "m", "e", "m", "b", "e", "r" >>,
      << "r", "e", "m", "e", "m", "b", "e", "r", "_", "m", "e" >>,
      << "s", "t", "a", "y", "_", "l", "o", "g", "g", "e", "d", "_", "i", "n" >> }

AccessibilityElements ==
    { "button", "a", "h1", "h2", "h3", "h4", "h5", "h6", "label", "span", "div", "p",
      "legend", "title" }

SpaceChars == { " ", "\t", "\n", "\r" }

\* strings.TrimSpace
TrimSpace(s) ==
    LET I == { i \in 1..Len(s) : s[i] \notin SpaceChars }
    IN  IF I = {} THEN << >> ELSE SubSeq(s, SetMin(I), SetMax(I))

\* the loops "for w := range words { if strings.Contains(value, w) ..."
containsAny(value, words) == \E w \in words : Contains(value, w)

\* the input's switch over its attributes: the lower-cased value of the last
\* attribute with that key, "" if there is none
lastAttr(attrs, key) ==
    LET I == { i \in 1..Len(attrs) : attrs[i].Key = key }
    IN  IF I = {} THEN << >> ELSE ToLower(attrs[SetMax(I)].Val)

\* some attribute with one of the keys holds a login keyword
attrKeyword(attrs, keys) ==
    \E i \in 1..Len(attrs) :
        attrs[i].Key \in keys /\ containsAny(ToLower(attrs[i].Val), loginKeywords)

\* n.FirstChild is a text node
firstChildIsText(nodes, i) ==
    /\ i < Len(nodes)
    /\ nodes[i + 1].depth = nodes[i].depth + 1
    /\ nodes[i + 1].Type = "text"

\* the visit of an element sets hasPasswordField
setsPasswordField(n) ==
    n.Data = "input" /\ lastAttr(n.Attr, "type") = << "p", "a", "s", "s", "w", "o", "r", "d" >>

\* the visit of the element nodes[i] sets hasLoginContext
setsLoginContext(nodes, i) ==
    LET n == nodes[i]
    IN  \/ /\ n.Data = "input"
           /\ \E key \in { "name", "id", "class" } :
                containsAny(lastAttr(n.Attr, key), loginInputNames)
        \/ /\ n.Data = "form"
           /\ attrKeyword(n.Attr, { "action", "id", "class", "name" })
        \/ /\ n.Data \in { "button", "a" }
           /\ attrKeyword(n.Attr, { "id", "class", "name", "value" })
        \/ /\ contains(AccessibilityElements, n.Data)
           /\ firstChildIsText(nodes, i)
           /\ containsAny(ToLower(TrimSpace(nodes[i + 1].Data)), loginKeywords)

\* traverse visits nodes[i]: a node deeper than MaxHTMLDepth and all below it
\* are skipped, and only an element sets a flag
visited(n) == n.depth <= MaxHTMLDepth /\ n.Type = "element"

hasLoginForm_PasswordOnly(nodes) ==
    \E i \in 1..Len(nodes) : visited(nodes[i]) /\ setsPasswordField(nodes[i])

\* traverse from nodes[i] on, with the flags hasPasswordField and hasLoginContext
RECURSIVE traverse(_, _, _, _)
traverse(nodes, i, hasPasswordField, hasLoginContext) ==
    IF i > Len(nodes)
    THEN hasPasswordField /\ hasLoginContext
    ELSE IF ~visited(nodes[i])
    THEN traverse(nodes, i + 1, hasPasswordField, hasLoginContext)
    ELSE traverse(nodes, i + 1,
                  hasPasswordField \/ setsPasswordField(nodes[i]),
                  hasLoginContext \/ setsLoginContext(nodes, i))

hasLoginForm(nodes) == traverse(nodes, 1, FALSE, FALSE)

\* the parts documents are put together of, each a list of nodes below <html>
In(attrs) == << Element("input", 1, attrs) >>

FragPassword == In(<< Attr("type", << "p", "a", "s", "s", "w", "o", "r", "d" >>) >>)

FragPasswordUpper == In(<< Attr("type", << "P", "a", "s", "s", "W", "o", "r", "d" >>) >>)

FragPasswordNamed ==
    In(<< Attr("type", << "p", "a", "s", "s", "w", "o", "r", "d" >>), Attr("name", << "p", "a", "s", "s", "w", "o", "r", "d" >>) >>)

FragTypeOverridden ==
    In(<< Attr("type", << "p", "a", "s", "s", "w", "o", "r", "d" >>), Attr("type", << "t", "e", "x", "t" >>) >>)

FragPasswordTyped == In(<< Attr("type", << "p", "a", "s", "s", "w", "o", "r", "d", "2" >>) >>)

FragUsername == In(<< Attr("type", << "t", "e", "x", "t" >>), Attr("name", << "U", "s", "e", "r", "N", "a", "m", "e" >>) >>)

FragEmail == In(<< Attr("type", << "t", "e", "x", "t" >>), Attr("name", << "e", "m", "a", "i", "l" >>) >>)

FragFormLogin == << Element("form", 1, << Attr("action", << "/", "L", "o", "g", "i", "n" >>) >>) >>

FragFormPlain == << Element("form", 1, << Attr("action", << "/", "x" >>) >>) >>

FragFormMethod == << Element("form", 1, << Attr("method", << "l", "o", "g", "i", "n" >>) >>) >>

FragButtonValue == << Element("button", 1, << Attr("value", << "S", "i", "g", "n", " ", "I", "n" >>) >>) >>

FragLabelText == << Element("label", 1, << >>), TextNode(<< " ", "P", "a", "s", "s", "w", "o", "r", "d", "\n" >>, 2) >>

FragCellText == << Element("td", 1, << >>), TextNode(<< "l", "o", "g", "i", "n" >>, 2) >>

FragSecondText ==
    << Element("div", 1, << >>), Element("br", 2, << >>), TextNode(<< "l", "o", "g", "i", "n" >>, 2) >>

FragDeepPassword ==
    << Element("input", MaxHTMLDepth + 1, << Attr("type", << "p", "a", "s", "s", "w", "o", "r", "d" >>) >>) >>

FragDeepForm ==
    << Element("form", MaxHTMLDepth + 1, << Attr("id", << "l", "o", "g", "i", "n" >>) >>) >>

FragEdgeText ==
    << Element("p", MaxHTMLDepth, << >>), TextNode(<< "l", "o", "g", " ", "i", "n" >>, MaxHTMLDepth + 1) >>

Fragments ==
    { << >>, FragPassword, FragPasswordUpper, FragPasswordNamed, FragTypeOverridden,
      FragPasswordTyped, FragUsername, FragEmail, FragFormLogin, FragFormPlain,
      FragFormMethod, FragButtonValue, FragLabelText, FragCellText, FragSecondText,
      FragDeepPassword, FragDeepForm, FragEdgeText }

\* the documents hasLoginForm is called with: <html> and two parts below it
LoginDocs == { << Element("html", 0, << >>) >> \o f \o g : f \in Fragments, g \in Fragments }

(***************************************************************************)
(* extractHTMLVersion                                                      *)
(***************************************************************************)
\* a doctype node of the tree
DoctypeNode(data) == [ Type |-> "doctype", Data |-> data, depth |-> 1, Attr |-> << >> ]

\* the table of extractHTMLVersion, a Go map: its entries
doctypeMap ==
    { [ pattern |-> << "h", "t", "m", "l", " ", "4", ".", "0", "1", " ", "s", "t", "r", "i", "c", "t" >>,
        version |-> "HTML 4.01 Strict" ],
      [ pattern |-> << "h", "t", "m", "l", " ", "4", ".", "0", "1", "/", "/", "s", "t", "r", "i", "c", "t" >>,
        version |-> "HTML 4.01 Strict" ],
      [ pattern |-> << "h", "t", "m", "l", " ", "4", ".", "0", "1", " ", "t", "r", "a", "n", "s", "i", "t", "i", "o", "n", "a", "l" >>,
        version |-> "HTML 4.01 Transitional" ],
      [ pattern |-> << "h", "t", "m", "l", " ", "4", ".", "0", "1", "/", "/", "t", "r", "a", "n", "s", "i", "t", "i", "o", "n", "a", "l" >>,
        version |-> "HTML 4.01 Transitional" ],
      [ pattern |-> << "h", "t", "m", "l", " ", "4", ".", "0", "1", " ", "f", "r", "a", "m", "e", "s", "e", "t" >>,
        version |-> "HTML 4.01 Frameset" ],
      [ pattern |-> << "h", "t", "m", "l", " ", "4", ".", "0", "1", "/", "/", "f", "r", "a", "m", "e", "s", "e", "t" >>,
        version |-> "HTML 4.01 Frameset" ],
      [ pattern |-> << "h", "t", "m", "l", " ", "4", ".", "0" >>,
        version |-> "HTML 4.0" ],
      [ pattern |-> << "h", "t", "m", "l", " ", "3", ".", "2" >>,
        version |-> "HTML 3.2" ],
      [ pattern |-> << "h", "t", "m", "l", " ", "2", ".", "0" >>,
        version |-> "HTML 2.0" ],
      [ pattern |-> << "x", "h", "t", "m", "l", " ", "1", ".", "1" >>,
        version |-> "XHTML 1.1" ],
      [ pattern |-> << "x", "h", "t", "m", "l", " ", "1", ".", "0", " ", "s", "t", "r", "i", "c", "t" >>,
        version |-> "XHTML 1.0 Strict" ],
      [ pattern |-> << "x", "h", "t", "m", "l", " ", "1", ".", "0", "/", "/", "s", "t", "r", "i", "c", "t" >>,
        version |-> "XHTML 1.0 Strict" ],
      [ pattern |-> << "x", "h", "t", "m", "l", " ", "1", ".", "0", " ", "t", "r", "a", "n", "s", "i", "t", "i", "o", "n", "a", "l" >>,
        version |-> "XHTML 1.0 Transitional" ],
      [ pattern |-> << "x", "h", "t", "m", "l", " ", "1", ".", "0", "/", "/", "t", "r", "a", "n", "s", "i", "t", "i", "o", "n", "a", "l" >>,
        version |-> "XHTML 1.0 Transitional" ],
      [ pattern |-> << "x", "h", "t", "m", "l", " ", "1", ".", "0", " ", "f", "r", "a", "m", "e", "s", "e", "t" >>,
        version |-> "XHTML 1.0 Frameset" ],
      [ pattern |-> << "x", "h", "t", "m", "l", " ", "1", ".", "0", "/", "/", "f", "r", "a", "m", "e", "s", "e", "t" >>,
        version |-> "XHTML 1.0 Frameset" ],
      [ pattern |-> << "x", "h", "t", "m", "l", " ", "b", "a", "s", "i", "c" >>,
        version |-> "XHTML Basic" ],
      [ pattern |-> << "x", "h", "t", "m", "l", " ", "m", "o", "b", "i", "l", "e" >>,
        version |-> "XHTML Mobile Profile" ],
      [ pattern |-> << "x", "h", "t", "m", "l" >>,
        version |-> "XHTML" ],
      [ pattern |-> << "h", "t", "m", "l" >>,
        version |-> "HTML" ] }

\* "for pattern, version := range doctypeMap" returns at the first pattern the
\* doctype contains; the order a Go map is ranged over is not fixed, so any
\* entry whose pattern the doctype contains can be that first one
rangeMatches(doctype) == { e \in doctypeMap : Contains(doctype, e.pattern) }

\* findDoctype: the versions it can return, {} standing for "": the first
\* doctype node that contains a pattern decides
findDoctype(nodes) ==
    LET I == { i \in 1..Len(nodes) :
                 nodes[i].Type = "doctype" /\ rangeMatches(ToLower(nodes[i].Data)) # {} }
    IN  IF I = {} THEN {}
        ELSE { e.version : e \in rangeMatches(ToLower(nodes[SetMin(I)].Data)) }

html5Elements ==
    { "article", "aside", "audio", "canvas", "datalist", "details", "embed", "figcaption",
      "figure", "footer", "header", "hgroup", "keygen", "mark", "meter", "nav", "output",
      "progress", "rp", "rt", "ruby", "section", "source", "summary", "time", "track",
      "video", "wbr" }

html5InputTypes ==
    { << "e", "m", "a", "i", "l" >>,
      << "u", "r", "l" >>,
      << "t", "e", "l" >>,
      << "s", "e", "a", "r", "c", "h" >>,
      << "n", "u", "m", "b", "e", "r" >>,
      << "r", "a", "n", "g", "e" >>,
      << "d", "a", "t", "e" >>,
      << "t", "i", "m", "e" >>,
      << "d", "a", "t", "e", "t", "i", "m", "e" >>,
      << "d", "a", "t", "e", "t", "i", "m", "e", "-", "l", "o", "c", "a", "l" >>,
      << "m", "o", "n", "t", "h" >>,
      << "w", "e", "e", "k" >>,
      << "c", "o", "l", "o", "r" >> }

html5Attributes == { "contenteditable", "draggable", "hidden", "spellcheck" }

hasHTML5Features(nodes) ==
    \E i \in 1..Len(nodes) :
        /\ visited(nodes[i])
        /\ \/ nodes[i].Data \in html5Elements
           \/ /\ nodes[i].Data = "input"
              /\ \E j \in 1..Len(nodes[i].Attr) :
                    /\ nodes[i].Attr[j].Key = "type"
                    /\ nodes[i].Attr[j].Val \in html5InputTypes
           \/ \E j \in 1..Len(nodes[i].Attr) : nodes[i].Attr[j].Key \in html5Attributes

\* the strings extractHTMLVersion can return for the document
extractHTMLVersion(nodes) ==
    IF findDoctype(nodes) # {} THEN findDoctype(nodes)
    ELSE IF hasHTML5Features(nodes) THEN { "HTML5" }
    ELSE { "Unknown/No DOCTYPE" }

\* the doctypes of the documents extractHTMLVersion is called with
Doctypes ==
    { << "h", "t", "m", "l" >>,
      << "H", "T", "M", "L", " ", "4", ".", "0", "1", " ", "S", "t", "r", "i", "c", "t" >>,
      << "h", "t", "m", "l", " ", "4", ".", "0", "1", "/", "/", "s", "t", "r", "i", "c", "t" >>,
      << "h", "t", "m", "l", " ", "4", ".", "0" >>,
      << "x", "h", "t", "m", "l", " ", "1", ".", "0", " ", "s", "t", "r", "i", "c", "t" >>,
      << "X", "H", "T", "M", "L" >>,
      << "s", "v", "g" >>,
      << "m", "a", "t", "h" >> }

DoctypeParts == { << >> } \cup { << DoctypeNode(d) >> : d \in Doctypes }

FeatureParts ==
    { << >>,
      << Element("article", 2, << >>) >>,
      << Element("article", MaxHTMLDepth + 1, << >>) >>,
      << Element("input", 2, << Attr("type", << "e", "m", "a", "i", "l" >>) >>) >>,
      << Element("input", 2, << Attr("type", << "t", "e", "x", "t" >>) >>) >>,
      << Element("div", 2, << Attr("hidden", << >>) >>) >> }

VersionDocs ==
    { d \o e \o << Element("html", 1, << >>) >> \o f :
        d \in DoctypeParts, e \in DoctypeParts, f \in FeatureParts }

(***************************************************************************)
(* the analyzer service                                                    *)
(***************************************************************************)
NumRuns == 2

MaxConfiguredChecks == 1

\* the calls whose context the caller cancels are at most this many
MaxCancelled == 1

DefaultSemaphoreSize == 10

StatusOK == 200

Runs == 1..NumRuns

\* the values NewAnalyzerService is called with
ConfiguredChecks == 0..MaxConfiguredChecks

\* what GetWithContext returns: (nil, err), (nil, nil) or a response with its status
TransportError == [ kind |-> "error", StatusCode |-> 0 ]

NoResponse == [ kind |-> "nil", StatusCode |-> 0 ]

Response(status) == [ kind |-> "response", StatusCode |-> status ]

\* what the transport answers the primary GET with
FetchOutcomes == { TransportError } \cup { Response(s) : s \in { 200, 204, 404, 500 } }

\* what the transport answers a probe with
ProbeOutcomes ==
    { TransportError, NoResponse } \cup { Response(s) : s \in { 199, 200, 399, 400, 404 } }

VARIABLES
    maxConcurrentChecks, \* the argument of NewAnalyzerService
    semaphore,           \* s.semaphore: the number of slots taken
    urlCache,            \* p.urlCache: resolved URL -> accessible
    pc,                  \* where each AnalyzeURL call is
    ctxDone,             \* whether the caller's context of the call is cancelled
    targetURL,           \* the call's argument
    content,             \* the body read of the response
    links,               \* parsed.Links as far as extractLinks has built it
    probing,             \* the resolved URL the call's parser is probing
    wpc,                 \* where each link worker of the call is
    analysis,            \* the LinkAnalysis the workers of the call fill
    hostMap,             \* hostMap of analyzeLinkAccessibility
    result,              \* the *AnalysisResult returned
    err,                 \* the error returned
    gets,                \* transport log: primary GETs issued by the call
    probed,              \* transport log: probe requests issued by the call
    resp,                \* resp of AnalyzeURL: the response to the primary GET
    call,                \* a direct call of a function of the service, and its return
    writing              \* what the worker of the call that holds mu writes to analysis

\* the rate limiter of the middleware
VARIABLES
    rate,                \* rl.rate
    window,              \* rl.window
    visitors,            \* rl.visitors: IP -> *Visitor
    requests,            \* the Visitor objects allocated: requests of each
    now,                 \* the clock time.Now() reads
    allows,              \* the Allow calls: position, argument, visitor held, return
    cleanup              \* the cleanup goroutine: position, visitors still to visit

limiterVars == << rate, window, visitors, requests, now, allows, cleanup >>

\* the analysis use case with its repositories
VARIABLES
    cacheTTL,            \* uc.cacheTTL, in seconds
    clock,               \* the clock of the use case and of the stores, in seconds
    cacheRepo,           \* the cache: key -> the result stored and when it expires
    analysisRepo,        \* the analyses table: id -> row
    ucalls               \* the calls of the use case: position, arguments, the
                         \* *Analysis in memory, what was returned

useCaseVars == << cacheTTL, clock, cacheRepo, analysisRepo, ucalls >>

\* the job queue in Redis
VARIABLES
    qnow,                \* the clock time.Now().Unix() reads, in seconds
    pendingQueue,        \* the sorted set analysis:jobs:pending: member -> score
    retryQueue,          \* the sorted set analysis:jobs:retry: member -> score
    processingSet,       \* the set analysis:jobs:processing
    jobs,                \* the jobs: how each was submitted, when it entered the
                         \* pending queue and when its delay ends
    dequeues             \* the Dequeue calls: position and the job returned

queueVars == << qnow, pendingQueue, retryQueue, processingSet, jobs, dequeues >>

\* the migrator and its database
VARIABLES
    migrationFiles,      \* the versions of the .sql files of migrationsFS
    schemaMigrations,    \* the table schema_migrations: the versions recorded
    schema,              \* the migrations whose Up is committed, in that order
    up                   \* the call of Migrator.Up: position, migrations, applied

migrateVars == << migrationFiles, schemaMigrations, schema, up >>

vars ==
    << maxConcurrentChecks, semaphore, urlCache, pc, ctxDone, targetURL, content,
       links, probing, wpc, analysis, hostMap, result, err, gets, probed, resp, call,
       writing, limiterVars, useCaseVars, queueVars, migrateVars >>

\* make(chan struct{}, maxConcurrentChecks) of NewAnalyzerService
semaphoreSize(n) == IF n <= 0 THEN DefaultSemaphoreSize ELSE n

\* entities.LinkAnalysis, zero value and as analyzeLinkAccessibility creates it
NewLinkAnalysis ==
    [ Internal |-> 0, External |-> 0, Inaccessible |-> 0,
      BrokenLinks |-> << >>, ExternalHosts |-> << >> ]

\* an empty result in the place of nil
NilResult_Empty ==
    [ isNil |-> FALSE, StatusCode |-> 0, ContentLength |-> 0, Links |-> NewLinkAnalysis ]

NilResult ==
    [ isNil |-> TRUE, StatusCode |-> 0, ContentLength |-> 0, Links |-> NewLinkAnalysis ]

\* the non-200 return of AnalyzeURL with nil in the place of the result
PartialResult_Nil(status) == NilResult

\* the result of the non-200 return of AnalyzeURL
PartialResult(status) == [ NilResult EXCEPT !.isNil = FALSE, !.StatusCode = status ]

\* the result of the final return of AnalyzeURL
FullResult(body, linkAnalysis) ==
    [ isNil |-> FALSE, StatusCode |-> StatusOK, ContentLength |-> body.size,
      Links |-> linkAnalysis ]

\* strconv of a decimal number, as fmt.Sprintf("%d", n) writes it
DecimalDigits == << "0", "1", "2", "3", "4", "5", "6", "7", "8", "9" >>

RECURSIVE FormatInt(_)
FormatInt(n) ==
    IF n < 0 THEN << "-" >> \o FormatInt(0 - n)
    ELSE IF n < 10 THEN << DecimalDigits[n + 1] >>
    ELSE FormatInt(n \div 10) \o << DecimalDigits[(n % 10) + 1] >>

getHTTPStatusMessage(statusCode) ==
    CASE statusCode = 400 -> << "b", "a", "d", " ", "r", "e", "q", "u", "e", "s", "t" >>
      [] statusCode = 401 ->
        << "a", "u", "t", "h", "e", "n", "t", "i", "c", "a", "t", "i", "o", "n",
           " ", "r", "e", "q", "u", "i", "r", "e", "d" >>
      [] statusCode = 403 ->
        << "w", "e", "b", "s", "i", "t", "e", " ", "b", "l", "o", "c", "k", "e",
           "d", " ", "a", "c", "c", "e", "s", "s", " ", "(", "l", "i", "k", "e",
           "l", "y", " ", "b", "o", "t", " ", "p", "r", "o", "t", "e", "c", "t",
           "i", "o", "n", ")" >>
      [] statusCode = 404 -> << "p", "a", "g", "e", " ", "n", "o", "t", " ", "f", "o", "u", "n", "d" >>
      [] statusCode = 429 ->
        << "r", "a", "t", "e", " ", "l", "i", "m", "i", "t", " ", "e", "x", "c",
           "e", "e", "d", "e", "d" >>
      [] statusCode \in { 500, 502, 503, 504 } -> << "s", "e", "r", "v", "e", "r", " ", "e", "r", "r", "o", "r" >>
      [] OTHER -> << "H", "T", "T", "P", " " >> \o FormatInt(statusCode)

\* a checkHTTPLink that takes a redirect status for a failure
checkHTTPLink_Only2xx(outcome) ==
    IF outcome.kind # "response" THEN FALSE
    ELSE outcome.StatusCode >= 200 /\ outcome.StatusCode < 300

\* checkHTTPLink: the answer of the transport to accessible
checkHTTPLink(outcome) ==
    IF outcome.kind # "response" THEN FALSE
    ELSE outcome.StatusCode >= 200 /\ outcome.StatusCode < 400

\* a link record whose classification depends on the probe
Link_ProbeDecides(url, internal, accessible) ==
    [ URL |-> url, IsInternal |-> internal /\ accessible, IsAccessible |-> accessible ]

Link(url, internal, accessible) ==
    [ URL |-> url, IsInternal |-> internal, IsAccessible |-> accessible ]

\* a critical section that loses the update of the worker
countLink_LostUpdate(a, hosts, l) == a

\* the critical section of a link worker on analysis
countLink(a, hosts, l) ==
    LET linkU   == Parse(l.URL)
        newHost == ~l.IsInternal /\ linkU.ok /\ linkU.Host \notin hosts
    IN  [ Internal      |-> IF l.IsInternal THEN a.Internal + 1 ELSE a.Internal,
          External      |-> IF l.IsInternal THEN a.External ELSE a.External + 1,
          Inaccessible  |-> IF l.IsAccessible THEN a.Inaccessible ELSE a.Inaccessible + 1,
          BrokenLinks   |-> IF l.IsAccessible THEN a.BrokenLinks
                            ELSE Append(a.BrokenLinks, l.URL),
          ExternalHosts |-> IF newHost THEN Append(a.ExternalHosts, linkU.Host)
                            ELSE a.ExternalHosts ]

countHost(hosts, l) ==
    LET linkU == Parse(l.URL)
    IN  IF ~l.IsInternal /\ linkU.ok THEN hosts \cup { linkU.Host } ELSE hosts

NoWorkers == << >>

\* entities.Analysis: the statuses, nil in the place of a *Analysis, and the
\* constructor and methods of the entity; id stands for uuid.New() and at for
\* time.Now()
StatusPending == "pending"

StatusProcessing == "processing"

StatusCompleted == "completed"

StatusFailed == "failed"

StatusRetrying == "retrying"

\* CompletedAt: nil or the pointer to the time of MarkAsCompleted
NilTime == "nil"

NilAnalysis ==
    [ isNil |-> TRUE, ID |-> 0, URL |-> << >>, Status |-> "", Result |-> NilResult,
      Error |-> "", CreatedAt |-> 0, CompletedAt |-> NilTime, RetryCount |-> 0 ]

NewAnalysis(id, url, at) ==
    [ NilAnalysis EXCEPT !.isNil = FALSE, !.ID = id, !.URL = url,
                         !.Status = StatusPending, !.CreatedAt = at ]

MarkAsProcessing(a) == [ a EXCEPT !.Status = StatusProcessing ]

MarkAsCompleted(a, res) ==
    [ a EXCEPT !.Status = StatusCompleted, !.Result = res, !.CompletedAt = "&now" ]

MarkAsFailed(a, e) == [ a EXCEPT !.Status = StatusFailed, !.Error = e ]

\* a MarkAsRetrying that sets the status only
MarkAsRetrying_StatusOnly(a) == [ a EXCEPT !.Status = StatusRetrying ]

MarkAsRetrying(a) == [ a EXCEPT !.Status = StatusRetrying, !.RetryCount = @ + 1 ]

CanRetry(a, maxRetries) == a.RetryCount < maxRetries

\* the transport was not called
NotAsked == [ kind |-> "none", StatusCode |-> 0 ]

\* a direct call of a function of the service: no call, a call with its
\* arguments, and the call returned
NoCall ==
    [ fn |-> "none", href |-> << >>, baseURL |-> << >>, returned |-> FALSE,
      error |-> NoError, bool |-> FALSE,
      fullURL |-> << >>, lookups |-> 0, requests |-> 0, stores |-> 0, doc |-> << >>,
      version |-> "", analysis |-> NilAnalysis, log |-> << >>, maxRetries |-> 0,
      statusCode |-> 0, message |-> << >>, answer |-> NotAsked,
      headings |-> << >>, hrefs |-> << >> ]

CallOf(fn, href, baseURL) == [ NoCall EXCEPT !.fn = fn, !.href = href, !.baseURL = baseURL ]

CallOn(fn, doc) == [ NoCall EXCEPT !.fn = fn, !.doc = doc ]

CallWithStatus(fn, statusCode) == [ NoCall EXCEPT !.fn = fn, !.statusCode = statusCode ]

\* the status codes of an HTTP response
StatusCodes == 100..599

\* a new Analysis whose methods are called
CallOnAnalysis == [ NoCall EXCEPT !.fn = "Analysis", !.analysis = NewAnalysis(1, << >>, 0) ]

\* the rate limiter: its bounds, its calls and its state before construction
NumAllows == 3

MaxTime == 2

MaxRate == 2

MaxWindow == 2

\* the Allow calls, each made once
Allows == 1..NumAllows

IPs == { "192.168.1.1", "192.168.1.2" }

\* an Allow call that has not started
NoAllow == [ pc |-> "idle", ip |-> "", visitor |-> 0, ok |-> FALSE, at |-> 0 ]

\* the cleanup goroutine waiting for its ticker
Ticker == [ pc |-> "ticker", pending |-> {} ]

\* before NewRateLimiter is called
NoRateLimiter ==
    /\ rate = 0
    /\ window = 0
    /\ visitors = << >>
    /\ requests = << >>
    /\ now = 0
    /\ allows = [ p \in Allows |-> NoAllow ]
    /\ cleanup = Ticker

\* the use case: its bounds, its calls and its state before construction
NumUseCaseCalls == 2

MaxCacheTTL == 2

MaxClock == 2

UseCaseCalls == 1..NumUseCaseCalls

\* a call of the use case that has not started; analysis is the *Analysis the
\* call holds, ret and error what it returned, found what its lookups gave,
\* invoked and created count the analyzer calls and the rows it inserted
NoUseCaseCall ==
    [ pc |-> "idle", fn |-> "", url |-> << >>, analysis |-> NilAnalysis,
      ret |-> NilAnalysis, error |-> NoError, found |-> "", invoked |-> 0,
      created |-> 0, deadline |-> FALSE ]

\* before NewAnalysisUseCase is called
NoUseCase ==
    /\ cacheTTL = 0
    /\ clock = 0
    /\ cacheRepo = << >>
    /\ analysisRepo = << >>
    /\ ucalls = [ c \in UseCaseCalls |-> NoUseCaseCall ]

\* the job queue: its bounds, its calls and its state before any call.  Epoch
\* is the Unix time the clock starts at.
NumJobs == 2

NumDequeues == 2

MaxPriority == 2

MaxDelay == 2

MaxElapsed == 3

Epoch == 1700000000

Jobs == 1..NumJobs

Dequeues == 1..NumDequeues

\* nil in the place of a *AnalysisJob
NilJob == [ isNil |-> TRUE, ID |-> 0, Priority |-> 0 ]

\* NewAnalysisJob(url, userID, correlationID, priority); id stands for
\* uuid.New().  The record is also what json.Marshal writes of the job and
\* json.Unmarshal reads back: the member of the Redis sets.
NewAnalysisJob(id, priority) == [ isNil |-> FALSE, ID |-> id, Priority |-> priority ]

\* a job that was not submitted
NoJob ==
    [ job |-> NilJob, submitted |-> "", enqueuedAt |-> 0, dueAt |-> 0, requeued |-> FALSE ]

\* a Dequeue call that has not started
NoDequeue == [ pc |-> "idle", job |-> NilJob, error |-> NoError ]

NoJobQueue ==
    /\ qnow = Epoch
    /\ pendingQueue = << >>
    /\ retryQueue = << >>
    /\ processingSet = {}
    /\ jobs = [ j \in Jobs |-> NoJob ]
    /\ dequeues = [ d \in Dequeues |-> NoDequeue ]

\* the migrator before NewMigrator
NoUp == [ pc |-> "idle", calls |-> 0, migrations |-> << >>, applied |-> {}, i |-> 0,
          error |-> NoError, done |-> << >> ]

NoMigrator ==
    /\ migrationFiles = {}
    /\ schemaMigrations = {}
    /\ schema = << >>
    /\ up = NoUp

\* NewAnalyzerService and NewHTMLParser: the service with no call of AnalyzeURL yet
NewAnalyzerService ==
    /\ maxConcurrentChecks \in ConfiguredChecks
    /\ semaphore = 0
    /\ urlCache = << >>
    /\ pc = [ r \in Runs |-> "idle" ]
    /\ ctxDone = [ r \in Runs |-> FALSE ]
    /\ targetURL = [ r \in Runs |-> << >> ]
    /\ content = [ r \in Runs |-> EmptyBody ]
    /\ links = [ r \in Runs |-> << >> ]
    /\ probing = [ r \in Runs |-> << >> ]
    /\ wpc = [ r \in Runs |-> NoWorkers ]
    /\ analysis = [ r \in Runs |-> NewLinkAnalysis ]
    /\ hostMap = [ r \in Runs |-> {} ]
    /\ result = [ r \in Runs |-> NilResult ]
    /\ err = [ r \in Runs |-> NoError ]
    /\ gets = [ r \in Runs |-> 0 ]
    /\ probed = [ r \in Runs |-> << >> ]
    /\ resp = [ r \in Runs |-> NoResponse ]
    /\ writing = [ r \in Runs |-> NewLinkAnalysis ]

Init == NewAnalyzerService /\ call = NoCall /\ NoRateLimiter /\ NoUseCase /\ NoJobQueue /\ NoMigrator

\* the caller cancels the context of a call that has not returned
Cancel(r) ==
    /\ pc[r] \notin { "done", "failed" }
    /\ ~ctxDone[r]
    /\ Cardinality({ q \in Runs : ctxDone[q] }) < MaxCancelled
    /\ ctxDone' = [ ctxDone EXCEPT ![r] = TRUE ]
    /\ UNCHANGED << maxConcurrentChecks, semaphore, urlCache, pc, targetURL, content,
                    links, probing, wpc, analysis, hostMap, result, err, gets, probed,
                    resp, call, writing, limiterVars, useCaseVars, queueVars, migrateVars >>

\* an error that is recorded without returning: the call goes on to parse
Fail_NoReturn(r, e, res) ==
    /\ pc' = [ pc EXCEPT ![r] = "parsing" ]
    /\ err' = [ err EXCEPT ![r] = e ]
    /\ result' = [ result EXCEPT ![r] = res ]

\* a return of AnalyzeURL with an error
Fail(r, e, res) ==
    /\ pc' = [ pc EXCEPT ![r] = "failed" ]
    /\ err' = [ err EXCEPT ![r] = e ]
    /\ result' = [ result EXCEPT ![r] = res ]

\* AnalyzeURL up to the call of the transport: ValidateURL, then GetWithContext
\* (which fails at once on a context that is already done).  The calls are
\* numbered in the order they start.
Start(r, url) ==
    /\ pc[r] = "idle"
    /\ \A q \in Runs : q < r => pc[q] # "idle"
    /\ targetURL' = [ targetURL EXCEPT ![r] = url ]
    /\ IF ValidateURL(url) # NoError
       THEN Fail(r, "URL validation failed", NilResult) /\ UNCHANGED gets
       ELSE /\ gets' = [ gets EXCEPT ![r] = @ + 1 ]
            /\ IF ctxDone[r]
               THEN Fail(r, "request was canceled", NilResult)
               ELSE /\ pc' = [ pc EXCEPT ![r] = "fetching" ]
                    /\ UNCHANGED << err, result >>
    /\ UNCHANGED << maxConcurrentChecks, semaphore, urlCache, ctxDone, content, links,
                    probing, wpc, analysis, hostMap, probed, resp, call, writing, limiterVars, useCaseVars, queueVars, migrateVars >>

\* a fetch that is issued again when the transport fails
FetchReturn_Retries(r, outcome) ==
    /\ pc[r] = "fetching"
    /\ outcome.kind = "error"
    /\ gets[r] < 2
    /\ gets' = [ gets EXCEPT ![r] = @ + 1 ]
    /\ UNCHANGED << maxConcurrentChecks, semaphore, urlCache, pc, ctxDone, targetURL,
                    content, links, probing, wpc, analysis, hostMap, result, err, probed,
                    resp, call, writing, limiterVars, useCaseVars, queueVars, migrateVars >>

\* GetWithContext returns: a transport error, a status other than 200, or 200
FetchReturn(r, outcome) ==
    /\ pc[r] = "fetching"
    /\ resp' = [ resp EXCEPT ![r] = IF outcome.kind = "error" THEN NoResponse ELSE outcome ]
    /\ IF outcome.kind = "error"
       THEN Fail(r, "network error", NilResult)
       ELSE IF outcome.StatusCode # StatusOK
       THEN Fail(r, "HTTP status", PartialResult(outcome.StatusCode))
       ELSE /\ pc' = [ pc EXCEPT ![r] = "reading" ]
            /\ UNCHANGED << err, result >>
    /\ UNCHANGED << maxConcurrentChecks, semaphore, urlCache, ctxDone, targetURL, content,
                    links, probing, wpc, analysis, hostMap, gets, probed, call, writing, limiterVars, useCaseVars, queueVars, migrateVars >>

\* io.ReadAll of the body: an error, or the content
ReadBody(r, ok, body) ==
    /\ pc[r] = "reading"
    /\ IF ~ok
       THEN Fail(r, "failed to read response body", NilResult) /\ UNCHANGED content
       ELSE /\ content' = [ content EXCEPT ![r] = body ]
            /\ pc' = [ pc EXCEPT ![r] = "parsing" ]
            /\ UNCHANGED << err, result >>
    /\ UNCHANGED << maxConcurrentChecks, semaphore, urlCache, ctxDone, targetURL, links,
                    probing, wpc, analysis, hostMap, gets, probed, resp, call, writing, limiterVars, useCaseVars, queueVars, migrateVars >>

\* Parse up to extractLinks: empty content is an error
ParseStart(r) ==
    /\ pc[r] = "parsing"
    /\ IF content[r].size = 0
       THEN Fail(r, "failed to parse HTML", NilResult)
       ELSE /\ pc' = [ pc EXCEPT ![r] = "links" ]
            /\ UNCHANGED << err, result >>
    /\ UNCHANGED << maxConcurrentChecks, semaphore, urlCache, ctxDone, targetURL, content,
                    links, probing, wpc, analysis, hostMap, gets, probed, resp, call, writing, limiterVars, useCaseVars, queueVars, migrateVars >>

\* a cache lookup that always misses
cached_Never(cache, fullURL) == FALSE

\* accessible, exists := p.urlCache[fullURL]: exists
cached(cache, fullURL) == fullURL \in DOMAIN cache

\* the href extractLinks is at
nextHref(r) == anchorHrefs(content[r].nodes)[Len(links[r]) + 1]

\* extractLinks at one <a>: isInternalLink, and checkLinkAccessibility up to
\* the cache lookup; on a miss the probe request goes out
ExtractLink(r) ==
    /\ pc[r] = "links"
    /\ Len(links[r]) < Len(anchorHrefs(content[r].nodes))
    /\ LET href     == nextHref(r)
           internal == isInternalLink(href, targetURL[r])
           t        == linkTarget(href, targetURL[r])
       IN  IF t.kind = "probe" /\ ~cached(urlCache, t.url)
           THEN /\ probing' = [ probing EXCEPT ![r] = t.url ]
                /\ probed' = [ probed EXCEPT ![r] = Append(@, t.url) ]
                /\ pc' = [ pc EXCEPT ![r] = "probing" ]
                /\ UNCHANGED links
           ELSE /\ links' = [ links EXCEPT ![r] =
                     Append(@, Link(href, internal,
                                    IF t.kind = "probe" THEN urlCache[t.url]
                                    ELSE t.kind = "exempt")) ]
                /\ UNCHANGED << probing, probed, pc >>
    /\ UNCHANGED << maxConcurrentChecks, semaphore, urlCache, ctxDone, targetURL, content,
                    wpc, analysis, hostMap, result, err, gets, resp, call, writing, limiterVars, useCaseVars, queueVars, migrateVars >>

\* checkHTTPLink returns: the outcome is cached and the link is appended
ProbeReturn(r, outcome) ==
    /\ pc[r] = "probing"
    /\ LET href       == nextHref(r)
           accessible == checkHTTPLink(outcome)
       IN  /\ urlCache' = (probing[r] :> accessible) @@ urlCache
           /\ links' = [ links EXCEPT ![r] =
                Append(@, Link(href, isInternalLink(href, targetURL[r]), accessible)) ]
    /\ probing' = [ probing EXCEPT ![r] = << >> ]
    /\ pc' = [ pc EXCEPT ![r] = "links" ]
    /\ UNCHANGED << maxConcurrentChecks, semaphore, ctxDone, targetURL, content, wpc,
                    analysis, hostMap, result, err, gets, probed, resp, call, writing, limiterVars, useCaseVars, queueVars, migrateVars >>

\* Parse has returned; analyzeLinkAccessibility starts one worker per link
SpawnWorkers(r) ==
    /\ pc[r] = "links"
    /\ Len(links[r]) = Len(anchorHrefs(content[r].nodes))
    /\ wpc' = [ wpc EXCEPT ![r] = [ i \in 1..Len(links[r]) |-> "waiting" ] ]
    /\ pc' = [ pc EXCEPT ![r] = "joining" ]
    /\ UNCHANGED << maxConcurrentChecks, semaphore, urlCache, ctxDone, targetURL, content,
                    links, probing, analysis, hostMap, result, err, gets, probed, resp,
                    call, writing, limiterVars, useCaseVars, queueVars, migrateVars >>

\* a send on s.semaphore that never blocks
semaphoreFree_Unbounded == TRUE

\* whether a send on s.semaphore can proceed
semaphoreFree == semaphore < semaphoreSize(maxConcurrentChecks)

\* case s.semaphore <- struct{}{}
WorkerAcquire(r, i) ==
    /\ i \in DOMAIN wpc[r]
    /\ wpc[r][i] = "waiting"
    /\ semaphoreFree
    /\ semaphore' = semaphore + 1
    /\ wpc' = [ wpc EXCEPT ![r][i] = "holding" ]
    /\ UNCHANGED << maxConcurrentChecks, urlCache, pc, ctxDone, targetURL, content, links,
                    probing, analysis, hostMap, result, err, gets, probed, resp, call, writing, limiterVars, useCaseVars, queueVars, migrateVars >>

\* case <-ctx.Done(): the worker returns without counting its link
WorkerAbandon(r, i) ==
    /\ i \in DOMAIN wpc[r]
    /\ wpc[r][i] = "waiting"
    /\ ctxDone[r]
    /\ wpc' = [ wpc EXCEPT ![r][i] = "done" ]
    /\ UNCHANGED << maxConcurrentChecks, semaphore, urlCache, pc, ctxDone, targetURL,
                    content, links, probing, analysis, hostMap, result, err, gets, probed,
                    resp, call, writing, limiterVars, useCaseVars, queueVars, migrateVars >>

\* the workers of the call that hold mu
writers(r) == { i \in DOMAIN wpc[r] : wpc[r][i] = "writing" }

\* mu.Lock(): the worker with its slot enters the critical section and starts
\* on its writes to analysis
WorkerLock(r, i) ==
    /\ i \in DOMAIN wpc[r]
    /\ wpc[r][i] = "holding"
    /\ writers(r) = {}
    /\ wpc' = [ wpc EXCEPT ![r][i] = "writing" ]
    /\ writing' = [ writing EXCEPT ![r] = countLink(analysis[r], hostMap[r], links[r][i]) ]
    /\ UNCHANGED << maxConcurrentChecks, semaphore, urlCache, pc, ctxDone, targetURL,
                    content, links, probing, analysis, hostMap, result, err, gets, probed,
                    resp, call, limiterVars, useCaseVars, queueVars, migrateVars >>

\* a worker that exits without the deferred <-s.semaphore
WorkerCount_KeepsSlot(r, i) ==
    /\ i \in DOMAIN wpc[r]
    /\ wpc[r][i] = "writing"
    /\ analysis' = [ analysis EXCEPT ![r] = writing[r] ]
    /\ hostMap' = [ hostMap EXCEPT ![r] = countHost(@, links[r][i]) ]
    /\ writing' = [ writing EXCEPT ![r] = NewLinkAnalysis ]
    /\ wpc' = [ wpc EXCEPT ![r][i] = "done" ]
    /\ UNCHANGED << maxConcurrentChecks, semaphore, urlCache, pc, ctxDone, targetURL,
                    content, links, probing, result, err, gets, probed, resp, call,
                    limiterVars, useCaseVars, queueVars, migrateVars >>

\* the writes of the critical section are made and mu.Unlock() is reached, then
\* the deferred <-s.semaphore and wg.Done()
WorkerCount(r, i) ==
    /\ i \in DOMAIN wpc[r]
    /\ wpc[r][i] = "writing"
    /\ analysis' = [ analysis EXCEPT ![r] = writing[r] ]
    /\ hostMap' = [ hostMap EXCEPT ![r] = countHost(@, links[r][i]) ]
    /\ writing' = [ writing EXCEPT ![r] = NewLinkAnalysis ]
    /\ semaphore' = semaphore - 1
    /\ wpc' = [ wpc EXCEPT ![r][i] = "done" ]
    /\ UNCHANGED << maxConcurrentChecks, urlCache, pc, ctxDone, targetURL, content, links,
                    probing, result, err, gets, probed, resp, call, limiterVars, useCaseVars, queueVars, migrateVars >>

\* wg.Wait() has returned and done is closed
workersDone(r) == \A i \in DOMAIN wpc[r] : wpc[r][i] = "done"

\* a join that waits for wg.Wait() only
joinReady_WaitsForAll(r) == workersDone(r)

\* whether the select at the end of analyzeLinkAccessibility can proceed
joinReady(r) == workersDone(r) \/ ctxDone[r]

\* a copy of analysis taken while a worker writes it: the copy is made without
\* mu, so each field holds its value of before or of after the worker's writes
tornCopies(before, after) ==
    { [ Internal      |-> internal,
        External      |-> external,
        Inaccessible  |-> inaccessible,
        BrokenLinks   |-> brokenLinks,
        ExternalHosts |-> externalHosts ] :
        internal \in { before.Internal, after.Internal },
        external \in { before.External, after.External },
        inaccessible \in { before.Inaccessible, after.Inaccessible },
        brokenLinks \in { before.BrokenLinks, after.BrokenLinks },
        externalHosts \in { before.ExternalHosts, after.ExternalHosts } }

\* "return analysis": the values the returned copy can have
returnedAnalysis(r) ==
    IF writers(r) = {} THEN { analysis[r] } ELSE tornCopies(analysis[r], writing[r])

\* analyzeLinkAccessibility returns analysis and AnalyzeURL the full result
Join(r) ==
    /\ pc[r] = "joining"
    /\ joinReady(r)
    /\ \E copy \in returnedAnalysis(r) :
           result' = [ result EXCEPT ![r] = FullResult(content[r], copy) ]
    /\ pc' = [ pc EXCEPT ![r] = "done" ]
    /\ UNCHANGED << maxConcurrentChecks, semaphore, urlCache, ctxDone, targetURL, content,
                    links, probing, wpc, analysis, hostMap, err, gets, probed, resp,
                    call, writing, limiterVars, useCaseVars, queueVars, migrateVars >>

Next ==
    \E r \in Runs :
        \/ Cancel(r)
        \/ \E url \in TargetURLs : Start(r, url)
        \/ \E outcome \in FetchOutcomes : FetchReturn(r, outcome)
        \/ \E ok \in BOOLEAN, body \in Bodies : ReadBody(r, ok, body)
        \/ ParseStart(r)
        \/ ExtractLink(r)
        \/ \E outcome \in ProbeOutcomes : ProbeReturn(r, outcome)
        \/ SpawnWorkers(r)
        \/ \E i \in DOMAIN wpc[r] :
              \/ WorkerAcquire(r, i)
              \/ WorkerAbandon(r, i)
              \/ WorkerLock(r, i)
              \/ WorkerCount(r, i)
        \/ Join(r)

Spec == Init /\ [][Next]_vars

\* the parts of the documents extractHeadings and extractLinks are called
\* with: headings and links at depths up to MaxHTMLDepth and below it
H(tag, depth) == << Element(tag, depth, << >>) >>

DepthFragments ==
    { << >>, H("h1", 2), H("h2", MaxHTMLDepth), H("h1", MaxHTMLDepth + 1),
      H("h3", MaxHTMLDepth + 1), H("h6", MaxHTMLDepth + 2), H("h7", 2), H("p", 2),
      << TextNode(<< "h", "1" >>, 2) >>,
      << A(2, hrefRelP) >>, << A(MaxHTMLDepth, hrefSlashP) >>,
      << A(MaxHTMLDepth + 1, hrefExternal) >>, << A(2, << >>) >> }

\* the document node, <html> and two parts below it
DepthDocs ==
    { << [ Type |-> "document", Data |-> << >>, depth |-> 0, Attr |-> << >> ],
         Element("html", 1, << >>) >> \o f \o g :
        f \in DepthFragments, g \in DepthFragments }

\* the inputs of the direct calls of ValidateURL: scheme, authority and rest
SchemeParts ==
    { << >>,
      << "h", "t", "t", "p", ":" >>,
      << "h", "t", "t", "p", "s", ":" >>,
      << "H", "T", "T", "P", ":" >>,
      << "f", "t", "p", ":" >>,
      << ":" >> }

\* authorities: none, empty, a host, a port, a port that is no number
AuthorityParts ==
    { << >>,
      << "/", "/" >>,
      << "/", "/", "a" >>,
      << "/", "/", "a", ".", "b" >>,
      << "/", "/", "a", ".", ".", "b" >>,
      << "/", "/", "a", ":", "8", "0" >>,
      << "/", "/", ":", "8", "0" >>,
      << "/", "/", "a", ":", "x" >>,
      << "/", "/", "a", ".", ".", "b", ":", "8", "0" >> }

\* paths, a query, a fragment and a control character
RestParts ==
    { << >>,
      << "/", "p" >>,
      << "/", ".", "." >>,
      << "?", "q" >>,
      << "#", "f" >>,
      << "/", "a", ".", ".", "b" >>,
      << "\n" >> }

\* the URLs of TestValidateURL and TestValidateURLComprehensive
TestURLs ==
    { << >>,
      << "n", "o", "t", "-", "a", "-", "u", "r", "l" >>,
      << "f", "t", "p", ":", "/", "/", "e", "x", "a", "m", "p", "l", "e", ".", "c", "o", "m" >>,
      << "j", "a", "v", "a", "s", "c", "r", "i", "p", "t", ":", "a", "l", "e", "r", "t", "(", "'", "t", "e", "s", "t", "'", ")" >>,
      << "h", "t", "t", "p", "s", ":", "/", "/", "e", "x", "a", "m", "p", "l", "e", ".", "c", "o", "m" >>,
      << "h", "t", "t", "p", ":", "/", "/", "e", "x", "a", "m", "p", "l", "e", ".", "c", "o", "m", "/", "p", "a", "t", "h", "?", "q", "u", "e", "r", "y", "=", "v", "a", "l", "u", "e" >> }

urlPrefix == << "h", "t", "t", "p", ":", "/", "/", "a", "/" >>

\* URLs at the length limit: MaxURLLength bytes, one byte more, and a URL of
\* fewer characters than MaxURLLength that is one byte longer than it
LongURLs ==
    { urlPrefix \o Repeat("p", MaxURLLength - len(urlPrefix)),
      urlPrefix \o Repeat("p", MaxURLLength - len(urlPrefix) + 1),
      urlPrefix \o Repeat(WideChar, (MaxURLLength - len(urlPrefix)) \div 2 + 1) }

ValidateInputs ==
    { (s \o a) \o p : s \in SchemeParts, a \in AuthorityParts, p \in RestParts }
      \cup TestURLs \cup LongURLs

\* the hrefs of the direct calls of isInternalLink
Hrefs ==
    { << >>,
      << "/", "p" >>,
      << "/" >>,
      << "#", "f" >>,
      << "?", "q" >>,
      << "p" >>,
      << "p", "/", "q" >>,
      << ".", ".", "/", "p" >>,
      << "h", "t", "t", "p", ":", "/", "/", "a", "/", "x" >>,
      << "h", "t", "t", "p", "s", ":", "/", "/", "a", "/", "x" >>,
      << "f", "t", "p", ":", "/", "/", "a", "/", "x" >>,
      << "h", "t", "t", "p", ":", "/", "/", "a" >>,
      << "h", "t", "t", "p", ":", "/", "/", "b", "/", "x" >>,
      << "h", "t", "t", "p", "s", ":", "/", "/", "b" >>,
      << "h", "t", "t", "p", ":", "/", "/", "a", ":", "8", "0", "/", "x" >>,
      << "h", "t", "t", "p", ":", "/", "/", "a", ".", "b", "/", "x" >>,
      << "/", "/", "a", "/", "x" >>,
      << "/", "/", "b", "/", "x" >>,
      << "/", "/", "b" >>,
      << "m", "a", "i", "l", "t", "o", ":", "t" >>,
      << "t", "e", "l", ":", "1" >>,
      << ":", "b", "a", "d" >>,
      << "h", "t", "t", "p", ":", "/", "/", "a", ":", "x" >>,
      << "p", "\n" >>,
      << "a", ":", "b", "/", "c" >>,
      << "j", "a", "v", "a", "s", "c", "r", "i", "p", "t", ":", "x" >> }

\* the base URLs: URLs ValidateURL accepts, as AnalyzeURL passes to Parse
BaseURLs ==
    { << "h", "t", "t", "p", ":", "/", "/", "a" >>,
      << "h", "t", "t", "p", "s", ":", "/", "/", "a", "/", "d", "/", "e" >>,
      << "h", "t", "t", "p", ":", "/", "/", "b" >>,
      << "h", "t", "t", "p", ":", "/", "/", "a", ":", "8", "0" >> }

\* the direct calls
Calls ==
    { CallOf("ValidateURL", u, << >>) : u \in ValidateInputs }
      \cup { CallOf("isInternalLink", h, b) : h \in Hrefs, b \in BaseURLs }
      \cup { CallOf("checkLinkAccessibility", h, b) : h \in Hrefs, b \in BaseURLs }
      \cup { CallOn("hasLoginForm", d) : d \in LoginDocs }
      \cup { CallOn("extractHTMLVersion", d) : d \in VersionDocs }
      \cup { CallOnAnalysis }
      \cup { CallWithStatus("getHTTPStatusMessage", n) : n \in StatusCodes }
      \cup { CallOn(fn, d) : fn \in { "extractHeadings", "extractLinks" }, d \in DepthDocs }

InitCalls == NewAnalyzerService /\ call \in Calls /\ NoRateLimiter /\ NoUseCase /\ NoJobQueue /\ NoMigrator

serviceVars ==
    << maxConcurrentChecks, semaphore, urlCache, pc, ctxDone, targetURL, content,
       links, probing, wpc, analysis, hostMap, result, err, gets, probed, resp, writing,
       limiterVars, useCaseVars, queueVars, migrateVars >>

\* s.ValidateURL(targetURL) called directly
CallValidateURL ==
    /\ call.fn = "ValidateURL"
    /\ ~call.returned
    /\ call' = [ call EXCEPT !.returned = TRUE, !.error = ValidateURL(call.href) ]
    /\ UNCHANGED serviceVars

\* p.isInternalLink(href, baseURL) called directly
CallIsInternalLink ==
    /\ call.fn = "isInternalLink"
    /\ ~call.returned
    /\ call' = [ call EXCEPT !.returned = TRUE,
                             !.bool = isInternalLink(call.href, call.baseURL) ]
    /\ UNCHANGED serviceVars

serviceVarsButCache ==
    << maxConcurrentChecks, semaphore, pc, ctxDone, targetURL, content,
       links, probing, wpc, analysis, hostMap, result, err, gets, probed, resp, writing,
       limiterVars, useCaseVars, queueVars, migrateVars >>

\* checkLinkAccessibility from its entry to its return or to the request of
\* checkHTTPLink, t being what the href resolves to: lookups, requests and
\* stores count the reads of p.urlCache, the calls of the transport and the
\* writes of p.urlCache
checkLinkBegin(t) ==
    IF t.kind # "probe"
    THEN call' = [ call EXCEPT !.returned = TRUE, !.bool = (t.kind = "exempt") ]
    ELSE IF cached(urlCache, t.url)
    THEN call' = [ call EXCEPT !.returned = TRUE, !.bool = urlCache[t.url],
                               !.fullURL = t.url, !.lookups = @ + 1 ]
    ELSE call' = [ call EXCEPT !.fullURL = t.url, !.lookups = @ + 1, !.requests = @ + 1 ]

\* p.checkLinkAccessibility(href, baseURL) called directly
CallCheckLinkAccessibility ==
    /\ call.fn = "checkLinkAccessibility"
    /\ ~call.returned
    /\ call.requests = 0
    /\ checkLinkBegin(linkTarget(call.href, call.baseURL))
    /\ UNCHANGED serviceVars

\* checkHTTPLink returns to the direct call: the outcome is stored and returned
CallCheckHTTPLinkReturn(outcome) ==
    /\ call.fn = "checkLinkAccessibility"
    /\ ~call.returned
    /\ call.requests = 1
    /\ urlCache' = (call.fullURL :> checkHTTPLink(outcome)) @@ urlCache
    /\ call' = [ call EXCEPT !.returned = TRUE, !.bool = checkHTTPLink(outcome),
                             !.stores = @ + 1, !.answer = outcome ]
    /\ UNCHANGED serviceVarsButCache

\* p.hasLoginForm(doc) called directly
CallHasLoginForm ==
    /\ call.fn = "hasLoginForm"
    /\ ~call.returned
    /\ call' = [ call EXCEPT !.returned = TRUE, !.bool = hasLoginForm(call.doc) ]
    /\ UNCHANGED serviceVars

\* p.extractHTMLVersion(doc) called directly
CallExtractHTMLVersion ==
    /\ call.fn = "extractHTMLVersion"
    /\ ~call.returned
    /\ \E version \in extractHTMLVersion(call.doc) :
           call' = [ call EXCEPT !.returned = TRUE, !.version = version ]
    /\ UNCHANGED serviceVars

\* the methods of an Analysis called one after the other, MaxMethodCalls in
\* all; log holds the names of the methods called
MaxMethodCalls == 4

MaxRetriesArg == 3

Methods ==
    { "MarkAsProcessing", "MarkAsCompleted", "MarkAsFailed", "MarkAsRetrying", "CanRetry" }

methodResult(a, method) ==
    CASE method = "MarkAsProcessing" -> MarkAsProcessing(a)
      [] method = "MarkAsCompleted"  -> MarkAsCompleted(a, PartialResult(StatusOK))
      [] method = "MarkAsFailed"     -> MarkAsFailed(a, "analysis failed")
      [] method = "MarkAsRetrying"   -> MarkAsRetrying(a)
      [] method = "CanRetry"         -> a

CallAnalysisMethod(method, maxRetries) ==
    /\ call.fn = "Analysis"
    /\ Len(call.log) < MaxMethodCalls
    /\ method = "CanRetry" \/ maxRetries = 0
    /\ call' = [ call EXCEPT !.analysis = methodResult(@, method),
                             !.log = Append(@, method),
                             !.maxRetries = maxRetries,
                             !.bool = method = "CanRetry" /\ CanRetry(call.analysis, maxRetries) ]
    /\ UNCHANGED serviceVars

\* s.getHTTPStatusMessage(statusCode) called directly
CallGetHTTPStatusMessage ==
    /\ call.fn = "getHTTPStatusMessage"
    /\ ~call.returned
    /\ call' = [ call EXCEPT !.returned = TRUE,
                             !.message = getHTTPStatusMessage(call.statusCode) ]
    /\ UNCHANGED serviceVars

\* p.extractHeadings(doc) called directly
CallExtractHeadings ==
    /\ call.fn = "extractHeadings"
    /\ ~call.returned
    /\ call' = [ call EXCEPT !.returned = TRUE, !.headings = extractHeadings(call.doc) ]
    /\ UNCHANGED serviceVars

\* the traversal of p.extractLinks(doc, baseURL): hrefs holds the URL of each
\* Link it returns
CallExtractLinks ==
    /\ call.fn = "extractLinks"
    /\ ~call.returned
    /\ call' = [ call EXCEPT !.returned = TRUE, !.hrefs = anchorHrefs(call.doc) ]
    /\ UNCHANGED serviceVars

NextCalls ==
    \/ CallExtractHeadings
    \/ CallExtractLinks
    \/ CallGetHTTPStatusMessage
    \/ \E method \in Methods, maxRetries \in 0..MaxRetriesArg :
           CallAnalysisMethod(method, maxRetries)
    \/ CallExtractHTMLVersion
    \/ CallHasLoginForm
    \/ CallValidateURL
    \/ CallIsInternalLink
    \/ CallCheckLinkAccessibility
    \/ \E outcome \in ProbeOutcomes : CallCheckHTTPLinkReturn(outcome)

SpecCalls == InitCalls /\ [][NextCalls]_vars

\* the scheduler runs the goroutine of AnalyzeURL: its select at the join is
\* taken when a case is ready; the link workers get no such assumption
FairSpec == Spec /\ \A r \in Runs : WF_vars(Join(r))

\* a step of a link worker of the call that is not the case <-ctx.Done(), seen
\* through the position of the worker alone: the steps of Next that satisfy it
\* are those of WorkerAcquire, WorkerLock and WorkerCount, and it is enabled
\* exactly when one of them is
WorkerStep(r) ==
    \E i \in DOMAIN wpc[r] :
        \/ wpc[r][i] = "waiting" /\ semaphoreFree
              /\ wpc' = [ wpc EXCEPT ![r][i] = "holding" ]
        \/ wpc[r][i] = "holding" /\ writers(r) = {}
              /\ wpc' = [ wpc EXCEPT ![r][i] = "writing" ]
        \/ wpc[r][i] = "writing"
              /\ wpc' = [ wpc EXCEPT ![r][i] = "done" ]

\* the scheduler also runs the link workers: a worker that can send on the
\* semaphore, take mu or finish its critical section eventually does
FairSpecWorkers ==
    Spec /\ \A r \in Runs : WF_vars(Join(r)) /\ WF_wpc(WorkerStep(r))

(***************************************************************************)
(* the rate limiter                                                        *)
(***************************************************************************)
\* NewRateLimiter(rate, window)
NewRateLimiter ==
    /\ rate \in 1..MaxRate
    /\ window \in 1..MaxWindow
    /\ visitors = << >>
    /\ requests = << >>
    /\ now = 0
    /\ allows = [ p \in Allows |-> NoAllow ]
    /\ cleanup = Ticker

InitLimiter == NewAnalyzerService /\ call = NoCall /\ NewRateLimiter /\ NoUseCase /\ NoJobQueue /\ NoMigrator

analyzerVars ==
    << maxConcurrentChecks, semaphore, urlCache, pc, ctxDone, targetURL, content,
       links, probing, wpc, analysis, hostMap, result, err, gets, probed, resp, call,
       writing >>

\* the loop that keeps the requests with reqTime.After(cutoff)
RECURSIVE validRequests(_, _)
validRequests(reqs, cutoff) ==
    IF reqs = << >> THEN << >>
    ELSE IF Head(reqs) > cutoff
    THEN << Head(reqs) >> \o validRequests(Tail(reqs), cutoff)
    ELSE validRequests(Tail(reqs), cutoff)

\* time passes
Tick ==
    /\ now < MaxTime
    /\ now' = now + 1
    /\ UNCHANGED << rate, window, visitors, requests, allows, cleanup >>
    /\ UNCHANGED << analyzerVars, useCaseVars, queueVars, migrateVars >>

\* a limiter that keeps one history for all clients: the visitor is looked up
\* under one key whatever the IP
AllowLookup_OneHistory(p, ip) ==
    /\ allows[p].pc = "idle"
    /\ cleanup.pc = "ticker"
    /\ IF "192.168.1.1" \in DOMAIN visitors
       THEN /\ allows' = [ allows EXCEPT ![p] = [ @ EXCEPT !.pc = "looked up", !.ip = ip,
                                                          !.visitor = visitors["192.168.1.1"] ] ]
            /\ UNCHANGED << visitors, requests >>
       ELSE /\ requests' = Append(requests, << >>)
            /\ visitors' = ("192.168.1.1" :> (Len(requests) + 1)) @@ visitors
            /\ allows' = [ allows EXCEPT ![p] = [ @ EXCEPT !.pc = "looked up", !.ip = ip,
                                                          !.visitor = Len(requests) + 1 ] ]
    /\ UNCHANGED << rate, window, now, cleanup >>
    /\ UNCHANGED << analyzerVars, useCaseVars, queueVars, migrateVars >>

\* Allow(ip) under rl.mu: the visitor of the IP is looked up, or made and stored
AllowLookup(p, ip) ==
    /\ allows[p].pc = "idle"
    /\ cleanup.pc = "ticker"
    /\ IF ip \in DOMAIN visitors
       THEN /\ allows' = [ allows EXCEPT ![p] = [ @ EXCEPT !.pc = "looked up", !.ip = ip,
                                                          !.visitor = visitors[ip] ] ]
            /\ UNCHANGED << visitors, requests >>
       ELSE /\ requests' = Append(requests, << >>)
            /\ visitors' = (ip :> (Len(requests) + 1)) @@ visitors
            /\ allows' = [ allows EXCEPT ![p] = [ @ EXCEPT !.pc = "looked up", !.ip = ip,
                                                          !.visitor = Len(requests) + 1 ] ]
    /\ UNCHANGED << rate, window, now, cleanup >>
    /\ UNCHANGED << analyzerVars, useCaseVars, queueVars, migrateVars >>

\* Allow(ip) under visitor.mu: the requests of the window are counted and the
\* call is refused, or recorded and allowed
AllowDecide(p) ==
    /\ allows[p].pc = "looked up"
    /\ LET v     == allows[p].visitor
           valid == validRequests(requests[v], now - window)
       IN  IF Len(valid) >= rate
           THEN /\ allows' = [ allows EXCEPT ![p] = [ @ EXCEPT !.pc = "returned",
                                                              !.ok = FALSE, !.at = now ] ]
                /\ UNCHANGED requests
           ELSE /\ requests' = [ requests EXCEPT ![v] = Append(valid, now) ]
                /\ allows' = [ allows EXCEPT ![p] = [ @ EXCEPT !.pc = "returned",
                                                              !.ok = TRUE, !.at = now ] ]
    /\ UNCHANGED << rate, window, visitors, now, cleanup >>
    /\ UNCHANGED << analyzerVars, useCaseVars, queueVars, migrateVars >>

\* the ticker fires: cleanup takes rl.mu and starts to range over rl.visitors
CleanupStart ==
    /\ cleanup.pc = "ticker"
    /\ cleanup' = [ pc |-> "sweeping", pending |-> DOMAIN visitors ]
    /\ UNCHANGED << rate, window, visitors, requests, now, allows >>
    /\ UNCHANGED << analyzerVars, useCaseVars, queueVars, migrateVars >>

\* cleanup at one visitor, under visitor.mu: its expired requests are dropped,
\* and the visitor is deleted from the map when none is left
CleanupVisitor(ip) ==
    /\ cleanup.pc = "sweeping"
    /\ ip \in cleanup.pending
    /\ LET v     == visitors[ip]
           valid == validRequests(requests[v], now - window)
       IN  IF Len(valid) = 0
           THEN /\ visitors' = [ i \in DOMAIN visitors \ { ip } |-> visitors[i] ]
                /\ UNCHANGED requests
           ELSE /\ requests' = [ requests EXCEPT ![v] = valid ]
                /\ UNCHANGED visitors
    /\ cleanup' = [ cleanup EXCEPT !.pending = @ \ { ip } ]
    /\ UNCHANGED << rate, window, now, allows >>
    /\ UNCHANGED << analyzerVars, useCaseVars, queueVars, migrateVars >>

\* the range is over: cleanup releases rl.mu and waits for the next tick
CleanupEnd ==
    /\ cleanup.pc = "sweeping"
    /\ cleanup.pending = {}
    /\ cleanup' = Ticker
    /\ UNCHANGED << rate, window, visitors, requests, now, allows >>
    /\ UNCHANGED << analyzerVars, useCaseVars, queueVars, migrateVars >>

NextLimiter ==
    \/ Tick
    \/ \E p \in Allows, ip \in IPs : AllowLookup(p, ip)
    \/ \E p \in Allows : AllowDecide(p)
    \/ CleanupStart
    \/ \E ip \in IPs : CleanupVisitor(ip)
    \/ CleanupEnd

SpecLimiter == InitLimiter /\ [][NextLimiter]_vars

(***************************************************************************)
(* the analysis use case                                                   *)
(* (internal/application/usecases/analysis_usecase.go) on its cache and    *)
(* its analyses table; the analyzer is the interface the use case calls,   *)
(* answering with a result or an error                                     *)
(***************************************************************************)
urlSecure == << "h", "t", "t", "p", "s", ":", "/", "/", "a" >>

UseCaseURLs == { urlValid, urlSecure, urlUnsupported }

\* NewAnalysisUseCase(analysisRepo, cacheRepo, analyzer, logger, cacheTTL)
NewAnalysisUseCase ==
    /\ cacheTTL \in 1..MaxCacheTTL
    /\ clock = 0
    /\ cacheRepo = << >>
    /\ analysisRepo = << >>
    /\ ucalls = [ c \in UseCaseCalls |-> NoUseCaseCall ]

InitUseCase ==
    /\ NewAnalyzerService /\ call = NoCall /\ NoRateLimiter /\ NewAnalysisUseCase
    /\ NoJobQueue /\ NoMigrator

\* fmt.Sprintf("analysis:%s", url)
cacheKey(url) == << "a", "n", "a", "l", "y", "s", "i", "s", ":" >> \o url

\* cacheRepo.Get returns nil: the key is stored and has not expired
cacheHolds(key) == key \in DOMAIN cacheRepo /\ clock < cacheRepo[key].expires

\* cacheRepo.Set(ctx, key, value, ttl)
cacheSet(key, value, ttl) == (key :> [ value |-> value, expires |-> clock + ttl ]) @@ cacheRepo

\* analysisRepo.Create: INSERT INTO analyses
inserted(a) == (a.ID :> a) @@ analysisRepo

\* analysisRepo.Update: UPDATE analyses SET status, result, error, retry_count
\* WHERE id
updated(a) ==
    [ id \in DOMAIN analysisRepo |->
        IF id = a.ID
        THEN [ analysisRepo[id] EXCEPT !.Status = a.Status, !.Result = a.Result,
                                       !.Error = a.Error, !.CompletedAt = a.CompletedAt,
                                       !.RetryCount = a.RetryCount ]
        ELSE analysisRepo[id] ]

\* analysisRepo.GetByURL: WHERE url = $1 ORDER BY created_at DESC LIMIT 1, the
\* rows it may return
latest(url) ==
    { row \in Range(analysisRepo) :
        /\ row.URL = url
        /\ \A other \in Range(analysisRepo) :
              other.URL = url => other.CreatedAt <= row.CreatedAt }

\* existing is completed with a result and within cacheTTL
fresh_NoTTL(existing) == existing.Status = StatusCompleted /\ ~existing.Result.isNil

fresh(existing) ==
    /\ existing.Status = StatusCompleted
    /\ ~existing.Result.isNil
    /\ clock - existing.CreatedAt < cacheTTL

\* what analyzer.AnalyzeURL(ctx, url) returns to the use case
AnalyzerFailure == [ result |-> PartialResult(404), err |-> "HTTP request failed" ]

DeadlineExceeded == [ result |-> NilResult, err |-> "context deadline exceeded" ]

AnalyzerSuccess == [ result |-> FullResult(EmptyBody, NewLinkAnalysis), err |-> NoError ]

AnalyzerOutcomes(url) ==
    IF ValidateURL(url) # NoError
    THEN { [ result |-> NilResult, err |-> "URL validation failed" ] }
    ELSE { AnalyzerSuccess, AnalyzerFailure }

\* time passes
ClockTick ==
    /\ clock < MaxClock
    /\ clock' = clock + 1
    /\ UNCHANGED << cacheTTL, cacheRepo, analysisRepo, ucalls >>
    /\ UNCHANGED << analyzerVars, limiterVars, queueVars, migrateVars >>

\* AnalyzeURL from its entry to the cache lookup and what follows a hit
AnalyzeURLCacheGet(c, url) ==
    /\ ucalls[c].pc = "idle"
    /\ IF cacheHolds(cacheKey(url))
       THEN LET a == MarkAsCompleted(NewAnalysis(c, url, clock),
                                     cacheRepo[cacheKey(url)].value)
            IN  ucalls' = [ ucalls EXCEPT ![c] =
                              [ @ EXCEPT !.pc = "returned", !.fn = "AnalyzeURL", !.url = url,
                                         !.found = "cache", !.analysis = a, !.ret = a ] ]
       ELSE ucalls' = [ ucalls EXCEPT ![c] =
                          [ @ EXCEPT !.pc = "get by url", !.fn = "AnalyzeURL", !.url = url ] ]
    /\ UNCHANGED << cacheTTL, clock, cacheRepo, analysisRepo >>
    /\ UNCHANGED << analyzerVars, limiterVars, queueVars, migrateVars >>

\* AnalyzeURL at the lookup in the repository and what follows a hit
AnalyzeURLGetByURL(c) ==
    /\ ucalls[c].pc = "get by url"
    /\ IF latest(ucalls[c].url) = { }
       THEN ucalls' = [ ucalls EXCEPT ![c] = [ @ EXCEPT !.pc = "create", !.found = "none" ] ]
       ELSE \E existing \in latest(ucalls[c].url) :
               IF fresh(existing)
               THEN ucalls' = [ ucalls EXCEPT ![c] =
                                  [ @ EXCEPT !.pc = "returned", !.found = "repo",
                                             !.analysis = existing, !.ret = existing ] ]
               ELSE ucalls' = [ ucalls EXCEPT ![c] =
                                  [ @ EXCEPT !.pc = "create", !.found = "none" ] ]
    /\ UNCHANGED << cacheTTL, clock, cacheRepo, analysisRepo >>
    /\ UNCHANGED << analyzerVars, limiterVars, queueVars, migrateVars >>

\* AnalyzeURL creates the record; ok is whether analysisRepo.Create succeeds
AnalyzeURLCreate(c, ok) ==
    /\ ucalls[c].pc = "create"
    /\ LET a == NewAnalysis(c, ucalls[c].url, clock)
       IN  IF ok
           THEN /\ analysisRepo' = inserted(a)
                /\ ucalls' = [ ucalls EXCEPT ![c] =
                                 [ @ EXCEPT !.pc = "mark as processing", !.analysis = a,
                                            !.created = @ + 1 ] ]
           ELSE /\ ucalls' = [ ucalls EXCEPT ![c] =
                                 [ @ EXCEPT !.pc = "returned", !.analysis = a,
                                            !.error = "failed to create analysis" ] ]
                /\ UNCHANGED analysisRepo
    /\ UNCHANGED << cacheTTL, clock, cacheRepo >>
    /\ UNCHANGED << analyzerVars, limiterVars, queueVars, migrateVars >>

\* AnalyzeURL marks the analysis as processing; ok is whether analysisRepo.Update
\* succeeds
AnalyzeURLMarkAsProcessing(c, ok) ==
    /\ ucalls[c].pc = "mark as processing"
    /\ ucalls' = [ ucalls EXCEPT ![c] =
                     [ @ EXCEPT !.pc = "analyzing", !.analysis = MarkAsProcessing(@) ] ]
    /\ analysisRepo' = IF ok THEN updated(MarkAsProcessing(ucalls[c].analysis))
                       ELSE analysisRepo
    /\ UNCHANGED << cacheTTL, clock, cacheRepo >>
    /\ UNCHANGED << analyzerVars, limiterVars, queueVars, migrateVars >>

\* the analyzer returns to AnalyzeURL, which marks the analysis, updates the
\* record, caches the result and returns; ok and stored are whether
\* analysisRepo.Update and cacheRepo.Set succeed
analyzed(a, outcome) ==
    IF outcome.err # NoError THEN MarkAsFailed(a, outcome.err)
    ELSE MarkAsCompleted(a, outcome.result)

AnalyzeURLReturn(c, ok, stored) ==
    /\ ucalls[c].pc = "analyzing"
    /\ \E outcome \in AnalyzerOutcomes(ucalls[c].url) :
       LET key == cacheKey(ucalls[c].url)
           a   == analyzed(ucalls[c].analysis, outcome)
       IN  /\ ucalls' = [ ucalls EXCEPT ![c] =
                            [ @ EXCEPT !.pc = "returned", !.analysis = a, !.ret = a,
                                       !.invoked = @ + 1,
                                       !.error = IF outcome.err # NoError
                                                 THEN "analysis failed" ELSE NoError ] ]
           /\ analysisRepo' = IF ok THEN updated(a) ELSE analysisRepo
           /\ IF outcome.err = NoError /\ stored
              THEN cacheRepo' = cacheSet(key, outcome.result, cacheTTL)
              ELSE /\ ~stored
                   /\ UNCHANGED cacheRepo
    /\ UNCHANGED << cacheTTL, clock >>
    /\ UNCHANGED << analyzerVars, limiterVars, queueVars, migrateVars >>

\* SubmitAnalysisJob: the URL is validated, the record created (ok is whether
\* analysisRepo.Create succeeds), the goroutine of ProcessAnalysisAsync started
\* and the job and the analysis returned
SubmitAnalysisJob(c, url, ok) ==
    /\ ucalls[c].pc = "idle"
    /\ LET a == NewAnalysis(c, url, clock)
       IN  IF ValidateURL(url) # NoError
           THEN /\ ok
                /\ ucalls' = [ ucalls EXCEPT ![c] =
                                 [ @ EXCEPT !.pc = "returned", !.fn = "SubmitAnalysisJob",
                                            !.url = url, !.error = "invalid URL" ] ]
                /\ UNCHANGED analysisRepo
           ELSE IF ~ok
           THEN /\ ucalls' = [ ucalls EXCEPT ![c] =
                                 [ @ EXCEPT !.pc = "returned", !.fn = "SubmitAnalysisJob",
                                            !.url = url, !.analysis = a,
                                            !.error = "failed to create analysis" ] ]
                /\ UNCHANGED analysisRepo
           ELSE /\ ucalls' = [ ucalls EXCEPT ![c] =
                                 [ @ EXCEPT !.pc = "spawned", !.fn = "SubmitAnalysisJob",
                                            !.url = url, !.analysis = a, !.ret = a,
                                            !.created = @ + 1 ] ]
                /\ analysisRepo' = inserted(a)
    /\ UNCHANGED << cacheTTL, clock, cacheRepo >>
    /\ UNCHANGED << analyzerVars, limiterVars, queueVars, migrateVars >>

\* the goroutine of ProcessAnalysisAsync at its cache lookup
ProcessCacheGet(c) ==
    /\ ucalls[c].pc = "spawned"
    /\ IF cacheHolds(cacheKey(ucalls[c].url))
       THEN ucalls' = [ ucalls EXCEPT ![c] =
                          [ @ EXCEPT !.pc = "updating", !.found = "cache",
                                     !.analysis = MarkAsCompleted(@,
                                         cacheRepo[cacheKey(ucalls[c].url)].value) ] ]
       ELSE ucalls' = [ ucalls EXCEPT ![c] =
                          [ @ EXCEPT !.pc = "async analyzing", !.found = "none" ] ]
    /\ UNCHANGED << cacheTTL, clock, cacheRepo, analysisRepo >>
    /\ UNCHANGED << analyzerVars, limiterVars, queueVars, migrateVars >>

\* a goroutine that caches whatever result the analyzer returned
ProcessAnalyzerReturn_CachesAlways(c, outcome, stored) ==
    /\ ucalls[c].pc = "async analyzing"
    /\ ucalls' = [ ucalls EXCEPT ![c] =
                     [ @ EXCEPT !.pc = "updating", !.invoked = @ + 1,
                                !.analysis = analyzed(@, outcome),
                                !.deadline = outcome = DeadlineExceeded ] ]
    /\ cacheRepo' = IF stored
                    THEN cacheSet(cacheKey(ucalls[c].url), outcome.result, cacheTTL)
                    ELSE cacheRepo
    /\ UNCHANGED << cacheTTL, clock, analysisRepo >>
    /\ UNCHANGED << analyzerVars, limiterVars, queueVars, migrateVars >>

\* the analyzer returns to the goroutine, which marks the analysis and caches
\* the result; an error can be the expiry of the 5 minutes of asyncCtx
ProcessAnalyzerReturn(c, outcome, stored) ==
    /\ ucalls[c].pc = "async analyzing"
    /\ IF outcome.err # NoError
       THEN /\ ~stored
            /\ ucalls' = [ ucalls EXCEPT ![c] =
                             [ @ EXCEPT !.pc = "updating", !.invoked = @ + 1,
                                        !.analysis = MarkAsFailed(@, outcome.err),
                                        !.deadline = outcome = DeadlineExceeded ] ]
            /\ UNCHANGED cacheRepo
       ELSE /\ ucalls' = [ ucalls EXCEPT ![c] =
                             [ @ EXCEPT !.pc = "updating", !.invoked = @ + 1,
                                        !.analysis = MarkAsCompleted(@, outcome.result) ] ]
            /\ cacheRepo' = IF stored
                            THEN cacheSet(cacheKey(ucalls[c].url), outcome.result, cacheTTL)
                            ELSE cacheRepo
    /\ UNCHANGED << cacheTTL, clock, analysisRepo >>
    /\ UNCHANGED << analyzerVars, limiterVars, queueVars, migrateVars >>

\* the goroutine updates the record and ends; ok is whether analysisRepo.Update
\* succeeds, which it does not with asyncCtx expired
ProcessUpdate(c, ok) ==
    /\ ucalls[c].pc = "updating"
    /\ ucalls[c].deadline => ~ok
    /\ analysisRepo' = IF ok THEN updated(ucalls[c].analysis) ELSE analysisRepo
    /\ ucalls' = [ ucalls EXCEPT ![c] = [ @ EXCEPT !.pc = "done" ] ]
    /\ UNCHANGED << cacheTTL, clock, cacheRepo >>
    /\ UNCHANGED << analyzerVars, limiterVars, queueVars, migrateVars >>

NextUseCase ==
    \/ ClockTick
    \/ \E c \in UseCaseCalls, url \in UseCaseURLs : AnalyzeURLCacheGet(c, url)
    \/ \E c \in UseCaseCalls : AnalyzeURLGetByURL(c)
    \/ \E c \in UseCaseCalls, ok \in BOOLEAN : AnalyzeURLCreate(c, ok)
    \/ \E c \in UseCaseCalls, ok \in BOOLEAN : AnalyzeURLMarkAsProcessing(c, ok)
    \/ \E c \in UseCaseCalls, ok \in BOOLEAN, stored \in BOOLEAN :
          AnalyzeURLReturn(c, ok, stored)
    \/ \E c \in UseCaseCalls, url \in UseCaseURLs, ok \in BOOLEAN : SubmitAnalysisJob(c, url, ok)
    \/ \E c \in UseCaseCalls : ProcessCacheGet(c)
    \/ \E c \in UseCaseCalls, stored \in BOOLEAN :
          \E outcome \in { AnalyzerSuccess, AnalyzerFailure, DeadlineExceeded } :
              ProcessAnalyzerReturn(c, outcome, stored)
    \/ \E c \in UseCaseCalls, ok \in BOOLEAN : ProcessUpdate(c, ok)

SpecUseCase == InitUseCase /\ [][NextUseCase]_vars

\* the scheduler runs the goroutine of ProcessAnalysisAsync and the calls it
\* makes return
FairSpecUseCase ==
    /\ SpecUseCase
    /\ \A c \in UseCaseCalls :
          /\ WF_vars(ProcessCacheGet(c))
          /\ WF_vars(\E stored \in BOOLEAN :
                        \E outcome \in { AnalyzerSuccess, AnalyzerFailure, DeadlineExceeded } :
                            ProcessAnalyzerReturn(c, outcome, stored))
          /\ WF_vars(\E ok \in BOOLEAN : ProcessUpdate(c, ok))

(***************************************************************************)
(* the job queue                                                           *)
(***************************************************************************)
InitQueue ==
    /\ NewAnalyzerService /\ call = NoCall /\ NoRateLimiter /\ NoUseCase
    /\ NoJobQueue /\ NoMigrator

\* score := float64(at) - float64(job.Priority*1000)
score(at, priority) == at - priority * 1000

\* ZADD key score member
zadd(zset, member, sc) == (member :> sc) @@ zset

\* ZREM key member...
zrem(zset, members) == [ m \in DOMAIN zset \ members |-> zset[m] ]

\* the members ZPOPMIN may pop: those of the lowest score; Redis orders members
\* of equal score by their bytes, which start with the random id of the job
zmin(zset) == { m \in DOMAIN zset : \A o \in DOMAIN zset : zset[m] <= zset[o] }

\* ZRANGEBYSCORE key min max
zrangeByScore(zset, min, max) == { m \in DOMAIN zset : min <= zset[m] /\ zset[m] <= max }

\* time passes
QueueTick ==
    /\ qnow < Epoch + MaxElapsed
    /\ qnow' = qnow + 1
    /\ UNCHANGED << pendingQueue, retryQueue, processingSet, jobs, dequeues >>
    /\ UNCHANGED << analyzerVars, limiterVars, useCaseVars, migrateVars >>

\* Enqueue(ctx, job) with a new job of that priority
Enqueue(j, priority) ==
    /\ jobs[j].submitted = ""
    /\ LET job == NewAnalysisJob(j, priority)
       IN  /\ pendingQueue' = zadd(pendingQueue, job, score(qnow, job.Priority))
           /\ jobs' = [ jobs EXCEPT ![j] = [ @ EXCEPT !.job = job, !.submitted = "Enqueue",
                                                      !.enqueuedAt = qnow ] ]
    /\ UNCHANGED << qnow, retryQueue, processingSet, dequeues >>
    /\ UNCHANGED << analyzerVars, limiterVars, useCaseVars, migrateVars >>

\* EnqueueWithDelay(ctx, job, delay) with a new job of that priority
EnqueueWithDelay(j, priority, delay) ==
    /\ jobs[j].submitted = ""
    /\ LET job       == NewAnalysisJob(j, priority)
           executeAt == qnow + delay
       IN  /\ retryQueue' = zadd(retryQueue, job, score(executeAt, job.Priority))
           /\ jobs' = [ jobs EXCEPT ![j] = [ @ EXCEPT !.job = job,
                                                      !.submitted = "EnqueueWithDelay",
                                                      !.dueAt = executeAt ] ]
    /\ UNCHANGED << qnow, pendingQueue, processingSet, dequeues >>
    /\ UNCHANGED << analyzerVars, limiterVars, useCaseVars, migrateVars >>

\* Dequeue up to the return of ZPopMin: nil, nil on an empty queue
DequeuePop(d) ==
    /\ dequeues[d].pc = "idle"
    /\ IF DOMAIN pendingQueue = {}
       THEN /\ dequeues' = [ dequeues EXCEPT ![d] = [ @ EXCEPT !.pc = "returned" ] ]
            /\ UNCHANGED pendingQueue
       ELSE \E member \in zmin(pendingQueue) :
               /\ pendingQueue' = zrem(pendingQueue, { member })
               /\ dequeues' = [ dequeues EXCEPT ![d] =
                                  [ @ EXCEPT !.pc = "popped", !.job = member ] ]
    /\ UNCHANGED << qnow, retryQueue, processingSet, jobs >>
    /\ UNCHANGED << analyzerVars, limiterVars, useCaseVars, migrateVars >>

\* Dequeue from SAdd to its return; ok is whether SAdd succeeds, its error
\* is not looked at
DequeueAdd(d, ok) ==
    /\ dequeues[d].pc = "popped"
    /\ processingSet' = IF ok THEN processingSet \cup { dequeues[d].job } ELSE processingSet
    /\ dequeues' = [ dequeues EXCEPT ![d] = [ @ EXCEPT !.pc = "returned" ] ]
    /\ UNCHANGED << qnow, pendingQueue, retryQueue, jobs >>
    /\ UNCHANGED << analyzerVars, limiterVars, useCaseVars, migrateVars >>

\* RequeueRetryJobs: the members of the retry queue with a score from 0 to now
\* are added to the pending queue and removed from the retry queue
RequeueRetryJobs ==
    /\ LET due == zrangeByScore(retryQueue, 0, qnow)
       IN  /\ pendingQueue' =
                  [ m \in DOMAIN pendingQueue \cup due |->
                      IF m \in due THEN score(qnow, m.Priority) ELSE pendingQueue[m] ]
           /\ retryQueue' = zrem(retryQueue, due)
           /\ jobs' = [ j \in Jobs |->
                          IF jobs[j].job \in due
                          THEN [ jobs[j] EXCEPT !.enqueuedAt = qnow, !.requeued = TRUE ]
                          ELSE jobs[j] ]
    /\ UNCHANGED << qnow, processingSet, dequeues >>
    /\ UNCHANGED << analyzerVars, limiterVars, useCaseVars, migrateVars >>

NextQueue ==
    \/ QueueTick
    \/ \E j \in Jobs, priority \in 0..MaxPriority : Enqueue(j, priority)
    \/ \E j \in Jobs, priority \in 0..MaxPriority, delay \in 0..MaxDelay :
          EnqueueWithDelay(j, priority, delay)
    \/ \E d \in Dequeues : DequeuePop(d)
    \/ \E d \in Dequeues, ok \in BOOLEAN : DequeueAdd(d, ok)
    \/ RequeueRetryJobs

SpecQueue == InitQueue /\ [][NextQueue]_vars

(***************************************************************************)
(* the migrator                                                            *)
(***************************************************************************)
\* the versions of the migration files and the calls of Up, one after the other
MaxVersion == 3

MaxUps == 2

Versions == 1..MaxVersion

InitMigrator ==
    /\ NewAnalyzerService /\ call = NoCall /\ NoRateLimiter /\ NoUseCase
    /\ NoJobQueue /\ NoMigrator

\* migrations in the order the files are walked, here from the highest version
\* down
RECURSIVE loadMigrations_Unsorted(_)
loadMigrations_Unsorted(files) ==
    IF files = {} THEN << >>
    ELSE << SetMax(files) >> \o loadMigrations_Unsorted(files \ { SetMax(files) })

\* loadMigrations: the migrations of the files, sorted by Version
RECURSIVE loadMigrations(_)
loadMigrations(files) ==
    IF files = {} THEN << >>
    ELSE << SetMin(files) >> \o loadMigrations(files \ { SetMin(files) })

\* a migration file is added to migrationsFS between two runs of the program
AddMigrationFile(version) ==
    /\ up.pc \in { "idle", "returned" }
    /\ up.calls < MaxUps
    /\ version \notin migrationFiles
    /\ migrationFiles' = migrationFiles \cup { version }
    /\ UNCHANGED << schemaMigrations, schema, up >>
    /\ UNCHANGED << analyzerVars, limiterVars, useCaseVars, queueVars >>

\* Up to its loop: createMigrationsTable, loadMigrations, getAppliedMigrations
UpStart ==
    /\ up.pc \in { "idle", "returned" }
    /\ up.calls < MaxUps
    /\ up' = [ pc |-> "loop", calls |-> up.calls + 1,
               migrations |-> loadMigrations(migrationFiles),
               applied |-> schemaMigrations, i |-> 1, error |-> NoError, done |-> << >> ]
    /\ UNCHANGED << migrationFiles, schemaMigrations, schema >>
    /\ UNCHANGED << analyzerVars, limiterVars, useCaseVars, queueVars >>

\* if applied[migration.Version] { continue }
UpSkip ==
    /\ up.pc = "loop"
    /\ up.i <= Len(up.migrations)
    /\ up.migrations[up.i] \in up.applied
    /\ up' = [ up EXCEPT !.i = @ + 1 ]
    /\ UNCHANGED << migrationFiles, schemaMigrations, schema >>
    /\ UNCHANGED << analyzerVars, limiterVars, useCaseVars, queueVars >>

\* applyMigration in its transaction: ok is whether the Up script, the INSERT
\* of the version and the commit all succeed; otherwise the transaction is
\* rolled back and Up returns the error
UpApply(ok) ==
    /\ up.pc = "loop"
    /\ up.i <= Len(up.migrations)
    /\ up.migrations[up.i] \notin up.applied
    /\ IF ok /\ up.migrations[up.i] \notin schemaMigrations
       THEN /\ schema' = Append(schema, up.migrations[up.i])
            /\ schemaMigrations' = schemaMigrations \cup { up.migrations[up.i] }
            /\ up' = [ up EXCEPT !.i = @ + 1, !.done = Append(@, up.migrations[up.i]) ]
       ELSE /\ up' = [ up EXCEPT !.pc = "returned", !.error = "failed to apply migration" ]
            /\ UNCHANGED << schemaMigrations, schema >>
    /\ UNCHANGED migrationFiles
    /\ UNCHANGED << analyzerVars, limiterVars, useCaseVars, queueVars >>

\* the loop is over: return nil
UpReturn ==
    /\ up.pc = "loop"
    /\ up.i > Len(up.migrations)
    /\ up' = [ up EXCEPT !.pc = "returned" ]
    /\ UNCHANGED << migrationFiles, schemaMigrations, schema >>
    /\ UNCHANGED << analyzerVars, limiterVars, useCaseVars, queueVars >>

NextMigrator ==
    \/ \E version \in Versions : AddMigrationFile(version)
    \/ UpStart
    \/ UpSkip
    \/ \E ok \in BOOLEAN : UpApply(ok)
    \/ UpReturn

SpecMigrator == InitMigrator /\ [][NextMigrator]_vars

(***************************************************************************)
(* properties                                                              *)
(***************************************************************************)
\* Links.Internal + Links.External of a result
linkSum(res) == res.Links.Internal + res.Links.External

\* the call has returned a result with a nil error
returnedOK(r) == pc[r] = "done" /\ err[r] = NoError

\* the link workers that hold a slot of the semaphore
holders ==
    UNION { { << r, i >> : i \in { j \in DOMAIN wpc[r] : wpc[r][j] \in { "holding", "writing" } } } : r \in Runs }

\* C1, as stated: every call that returns a result with a nil error has
\* Internal + External equal to the number of <a> elements with a non-empty
\* href collected from the document.
C1_SumEqualsAnchors ==
    \A r \in Runs :
        returnedOK(r) => linkSum(result[r]) = AnchorCount(content[r].nodes)

\* C1, amended: a call that returns with a nil error has Internal + External
\* at most the number of <a> elements with a non-empty href collected, and
\* equal to it when the context of the call was not cancelled before it returned.
C1_SumEqualsAnchorsUnlessCancelled ==
    \A r \in Runs :
        returnedOK(r) =>
            /\ linkSum(result[r]) <= AnchorCount(content[r].nodes)
            /\ ~ctxDone[r] => linkSum(result[r]) = AnchorCount(content[r].nodes)

\* a call that was not cancelled returned the count of the page with two
\* links, an <a> with an empty href and an <a> too deep to be collected
C1_Witness ==
    \E r \in Runs :
        /\ returnedOK(r) /\ ~ctxDone[r]
        /\ content[r] = BodyMixed
        /\ AnchorCount(content[r].nodes) = 2
        /\ result[r].Links.Internal = 0 /\ result[r].Links.External = 2

\* C2: at every moment the workers of the service that hold a slot are at most
\* maxConcurrentChecks, 10 when that is <= 0, for all the calls together; the
\* slots taken are exactly the slots held.
C2_HoldersBounded ==
    /\ Cardinality(holders) <= (IF maxConcurrentChecks <= 0 THEN 10 ELSE maxConcurrentChecks)
    /\ semaphore = Cardinality(holders)

\* every slot is held by a worker of one call while a worker of another call waits
C2_Witness ==
    /\ maxConcurrentChecks = 1
    /\ \E i \in DOMAIN wpc[1] : wpc[1][i] = "holding"
    /\ \E i \in DOMAIN wpc[2] : wpc[2][i] = "waiting"

\* what checkLinkAccessibility resolves the href extractLinks of call r is at to
nextTarget(r) == linkTarget(nextHref(r), targetURL[r])

\* extractLinks of call r appends a link without a probe having been made for it
appendsUnprobed(r) ==
    /\ pc[r] = "links"
    /\ Len(links'[r]) = Len(links[r]) + 1

\* C3: within one run no resolved URL is probed twice, and a link whose
\* resolved URL is in the cache gets the cached outcome without a probe.
C3_OneProbePerURL ==
    /\ [](\A r \in Runs : \A i, j \in DOMAIN probed[r] :
             i # j => probed[r][i] # probed[r][j])
    /\ [][\A r \in Runs :
             (appendsUnprobed(r) /\ nextTarget(r).kind = "probe") =>
                 /\ cached(urlCache, nextTarget(r).url)
                 /\ links'[r][Len(links'[r])].IsAccessible = urlCache[nextTarget(r).url]
                 /\ probed'[r] = probed[r]]_vars

\* both links of the page whose two links resolve to one URL are built with
\* one probe made by the run
C3_Witness ==
    \E r \in Runs :
        /\ content[r] = BodyDuplicate
        /\ Len(links[r]) = 2
        /\ Len(probed[r]) = 1

\* C4: when the context of a call is cancelled while it waits for its link
\* workers, the join can proceed at once and the call eventually returns, with
\* a nil error, the summary accumulated so far.
C4_CancelledJoinReturns ==
    /\ [](\A r \in Runs : (pc[r] = "joining" /\ ctxDone[r]) => ENABLED Join(r))
    /\ \A r \in Runs : (pc[r] = "joining" /\ ctxDone[r]) ~> returnedOK(r)
    /\ [][\A r \in Runs :
             (pc[r] = "joining" /\ pc'[r] # "joining") =>
                 /\ returnedOK(r)'
                 /\ ~result'[r].isNil
                 /\ result'[r].Links \in returnedAnalysis(r)]_vars

\* a cancelled call has returned a partial summary while a worker still waits
\* for a slot
C4_Witness ==
    \E r \in Runs :
        /\ returnedOK(r) /\ ctxDone[r]
        /\ \E i \in DOMAIN wpc[r] : wpc[r][i] = "waiting"
        /\ linkSum(result[r]) = 1

\* the stage of a call
stage(r) ==
    CASE pc[r] = "idle" -> "Validating"
      [] pc[r] \in { "fetching", "reading" } -> "Fetching"
      [] pc[r] \in { "parsing", "links", "probing" } -> "Parsing"
      [] pc[r] = "joining" -> "ClassifyingLinks"
      [] pc[r] = "done" -> "Done"
      [] pc[r] = "failed" -> "Failed"

stageOrder == << "Validating", "Fetching", "Parsing", "ClassifyingLinks", "Done" >>

\* s is the stage that follows stage q
follows(q, s) == \E k \in 1..(Len(stageOrder) - 1) : stageOrder[k] = q /\ stageOrder[k + 1] = s

\* what a call has performed: primary fetches, the body read, links built,
\* probes, workers and their counts, and what it returned
effects(r) ==
    << gets[r], resp[r], content[r], links[r], probed[r], wpc[r], analysis[r],
       result[r], err[r] >>

\* C5: a call moves through Validating, Fetching, Parsing, ClassifyingLinks,
\* Done in that order, one stage at a time, or from a stage to Failed; a stage
\* is entered only with no error so far; in a stage nothing of a later stage has
\* been performed; and a failed call performs nothing more.
C5_StagesInOrder ==
    /\ [][\A r \in Runs :
             \/ stage(r)' = stage(r)
             \/ follows(stage(r), stage(r)')
             \/ stage(r) \notin { "Done", "Failed" } /\ stage(r)' = "Failed"]_vars
    /\ [][\A r \in Runs : stage(r) = "Failed" => effects(r)' = effects(r)]_vars
    /\ [](\A r \in Runs :
             /\ err[r] # NoError <=> stage(r) = "Failed"
             /\ stage(r) = "Validating" => gets[r] = 0
             /\ stage(r) \in { "Validating", "Fetching" } =>
                    content[r] = EmptyBody /\ links[r] = << >> /\ probed[r] = << >>
             /\ stage(r) \in { "Validating", "Fetching", "Parsing" } =>
                    wpc[r] = NoWorkers /\ analysis[r] = NewLinkAnalysis
             /\ stage(r) = "Failed" =>
                    /\ links[r] = << >> /\ probed[r] = << >>
                    /\ wpc[r] = NoWorkers /\ analysis[r] = NewLinkAnalysis
                    /\ err[r] = "URL validation failed" => gets[r] = 0
                    /\ err[r] # "failed to parse HTML" => content[r] = EmptyBody)

\* one call failed at its validation and another went through every stage
C5_Witness ==
    \E r, q \in Runs :
        /\ stage(r) = "Failed" /\ err[r] = "URL validation failed"
        /\ stage(q) = "Done" /\ Len(probed[q]) = 1 /\ linkSum(result[q]) = 2

\* the primary fetch of the call was answered with a status outside 200..299
answeredNon2xx(r) ==
    /\ resp[r].kind = "response"
    /\ resp[r].StatusCode < 200 \/ resp[r].StatusCode > 299

\* C6: a call whose primary fetch is answered with a non-2xx status returns an
\* HTTP status error and a non-nil result that carries the status code and
\* nothing else, having read and parsed no body and probed no link.
C6_Non2xxPartialResult ==
    \A r \in Runs :
        answeredNon2xx(r) =>
            /\ pc[r] = "failed" /\ err[r] = "HTTP status"
            /\ ~result[r].isNil
            /\ result[r].StatusCode = resp[r].StatusCode
            /\ result[r].ContentLength = 0
            /\ result[r].Links = NewLinkAnalysis
            /\ content[r] = EmptyBody
            /\ links[r] = << >> /\ probed[r] = << >> /\ wpc[r] = NoWorkers

\* the primary fetch of a call was answered with 404
C6_Witness ==
    \E r \in Runs :
        /\ resp[r] = Response(404)
        /\ err[r] = "HTTP status" /\ result[r].StatusCode = 404

\* the links call r has built that are internal, and those whose probe failed
internalLinks(r) == { i \in DOMAIN links[r] : links[r][i].IsInternal }

brokenLinks(r) == { i \in DOMAIN links[r] : ~links[r][i].IsAccessible }

\* the primary fetch of call r returned a page that parsed
parsedPage(r) == pc[r] \in { "links", "probing", "joining", "done" }

\* C7: once the primary fetch has returned a page that parses, the call does
\* not fail whatever the probes answer: it returns a nil error and the full
\* result; a link is classified as isInternalLink says of its href, whatever
\* its probe answered, and the links whose probe failed are what Inaccessible
\* and BrokenLinks report.
C7_ProbeFailuresNotRaised ==
    /\ [][\A r \in Runs :
             /\ parsedPage(r) => parsedPage(r)'
             /\ links'[r] # links[r] =>
                    /\ links'[r] = Append(links[r], links'[r][Len(links'[r])])
                    /\ links'[r][Len(links'[r])].URL = nextHref(r)
                    /\ links'[r][Len(links'[r])].IsInternal
                          <=> isInternalLink(nextHref(r), targetURL[r])]_vars
    /\ [](\A r \in Runs :
             parsedPage(r) =>
                 /\ err[r] = NoError
                 /\ analysis[r].Inaccessible = Len(analysis[r].BrokenLinks)
                 /\ \A k \in DOMAIN analysis[r].BrokenLinks :
                        \E i \in brokenLinks(r) : links[r][i].URL = analysis[r].BrokenLinks[k]
                 /\ analysis[r].Inaccessible <= Cardinality(brokenLinks(r))
                 /\ analysis[r].Internal <= Cardinality(internalLinks(r))
                 /\ pc[r] = "done" =>
                        /\ ~result[r].isNil
                        /\ result[r].StatusCode = 200
                        /\ result[r].ContentLength = content[r].size
                        /\ ~ctxDone[r] =>
                               /\ result[r].Links.Internal = Cardinality(internalLinks(r))
                               /\ result[r].Links.Inaccessible = Cardinality(brokenLinks(r)))

\* a call returned a nil error and a result that reports a link whose probe failed
C7_Witness ==
    \E r \in Runs :
        /\ returnedOK(r)
        /\ Len(probed[r]) = 1
        /\ result[r].Links.Inaccessible = 1
        /\ result[r].Links.BrokenLinks = << hrefExternal >>

\* a direct call of fn has returned
returnedCall(fn) == call.fn = fn /\ call.returned

\* what C8 says of an accepted URL, apart from its length
acceptable(s) ==
    /\ s # << >>
    /\ Parse(s).ok
    /\ Parse(s).Scheme \in { << "h", "t", "t", "p" >>, << "h", "t", "t", "p", "s" >> }
    /\ Parse(s).Host # << >>
    /\ ~Contains(Hostname(Parse(s)), << ".", "." >>)

nilResultErrors ==
    { "URL validation failed", "request was canceled", "network error",
      "failed to read response body", "failed to parse HTML" }

\* C9: a call that returns a nil error returns a non-nil result; one that
\* returns a validation, transport, body-read or parse error returns a nil
\* result; one that returns an HTTP status error returns a non-nil result; and
\* there is no other return.
C9_ResultErrorPairing ==
    \A r \in Runs :
        /\ pc[r] = "done" => err[r] = NoError /\ ~result[r].isNil
        /\ pc[r] = "failed" =>
              /\ err[r] \in nilResultErrors \cup { "HTTP status" }
              /\ err[r] \in nilResultErrors => result[r].isNil
              /\ err[r] = "HTTP status" => ~result[r].isNil

\* one call failed to parse and returned no result, another returned a result
\* with its HTTP status error
C9_Witness ==
    \E r, q \in Runs :
        /\ err[r] = "failed to parse HTML" /\ result[r].isNil
        /\ err[q] = "HTTP status" /\ ~result[q].isNil

\* the href starts with "/", "#" or "?"
localPrefix(href) ==
    HasPrefix(href, << "/" >>) \/ HasPrefix(href, << "#" >>) \/ HasPrefix(href, << "?" >>)

\* C10, as stated: isInternalLink is true for every href that starts with "/",
\* "#" or "?" and for every relative href with neither scheme nor host; for an
\* href that has a scheme or a host it is true exactly when its host equals the
\* host of the base URL; for mailto:, tel: and unparseable hrefs it is false
\* (unparseable read as: unparseable and without one of the three prefixes).
C10_InternalIffSameHost ==
    returnedCall("isInternalLink") =>
        /\ localPrefix(call.href) => call.bool
        /\ (Parse(call.href).ok /\ Parse(call.href).Scheme = << >>
              /\ Parse(call.href).Host = << >>) => call.bool
        /\ (Parse(call.href).ok
              /\ (Parse(call.href).Scheme # << >> \/ Parse(call.href).Host # << >>)) =>
                 (call.bool <=> Parse(call.href).Host = Parse(call.baseURL).Host)
        /\ (HasPrefix(call.href, sMailto) \/ HasPrefix(call.href, sTel)) => ~call.bool
        /\ (~Parse(call.href).ok /\ ~localPrefix(call.href)) => ~call.bool

\* a protocol-relative href to another host was classified internal
C10_Witness ==
    /\ returnedCall("isInternalLink")
    /\ call.href = << "/", "/", "b", "/", "x" >>
    /\ call.baseURL = urlValid
    /\ call.bool

\* the hrefs C11 is about: "#", "?", "mailto:" or "tel:" first, or an absolute
\* href with a scheme other than http and https
exemptHref(href) ==
    \/ HasPrefix(href, << "#" >>) \/ HasPrefix(href, << "?" >>)
    \/ HasPrefix(href, sMailto) \/ HasPrefix(href, sTel)
    \/ /\ Parse(href).ok
       /\ Parse(href).Scheme # << >>
       /\ Parse(href).Scheme \notin { << "h", "t", "t", "p" >>, << "h", "t", "t", "p", "s" >> }

passwordInputs(nodes) ==
    { i \in 1..Len(nodes) :
        /\ nodes[i].Type = "element" /\ nodes[i].Data = "input"
        /\ nodes[i].depth <= MaxHTMLDepth
        /\ lastAttr(nodes[i].Attr, "type") = << "p", "a", "s", "s", "w", "o", "r", "d" >> }

contextSignals(nodes) ==
    { i \in 1..Len(nodes) :
        /\ nodes[i].Type = "element"
        /\ nodes[i].depth <= MaxHTMLDepth
        /\ setsLoginContext(nodes, i) }

C12_PasswordAndContext ==
    (call.fn = "hasLoginForm" /\ call.returned)
        => (call.bool <=> (passwordInputs(call.doc) # {} /\ contextSignals(call.doc) # {}))

C12_Witness ==
    /\ call.fn = "hasLoginForm" /\ call.returned /\ call.bool
    /\ call.doc = << Element("html", 0, << >>) >> \o FragPassword \o FragLabelText

\* the entries of the table whose pattern the first doctype of the document
\* contains, and the most specific of them: those with the longest pattern
firstDoctype(nodes) ==
    LET I == { i \in 1..Len(nodes) : nodes[i].Type = "doctype" }
    IN  IF I = {} THEN << >> ELSE ToLower(nodes[SetMin(I)].Data)

mostSpecific(doctype) ==
    { e \in rangeMatches(doctype) :
        \A f \in rangeMatches(doctype) : Len(f.pattern) <= Len(e.pattern) }

\* C14: when the doctype contains several patterns of the table,
\* extractHTMLVersion returns the version of the most specific one: a doctype
\* containing "html 4.01 strict" yields "HTML 4.01 Strict", never "HTML" or
\* "HTML 4.0"
C14_MostSpecificPattern ==
    ( /\ call.fn = "extractHTMLVersion" /\ call.returned
      /\ rangeMatches(firstDoctype(call.doc)) # {} )
        => \E e \in mostSpecific(firstDoctype(call.doc)) : call.version = e.version

C14_Witness ==
    /\ call.fn = "extractHTMLVersion" /\ call.returned
    /\ Contains(firstDoctype(call.doc), << "h", "t", "m", "l", " ", "4", ".", "0", "1", " ", "s", "t", "r", "i", "c", "t" >>)
    /\ call.version = "HTML 4.0"

\* C16: the link summary of a call is never read or written while a worker
\* writes it: at most one worker is in the critical section, and the return
\* that copies analysis is not taken while a worker is in it
C16_NoAccessWhileWriting ==
    /\ [](\A r \in Runs : Cardinality(writers(r)) <= 1)
    /\ [][\A r \in Runs : (pc[r] = "joining" /\ pc'[r] = "done") => writers(r) = {}]_vars

\* a cancelled call has returned a copy that no state of analysis equals:
\* the link counted, its host not yet in ExternalHosts
C16_Witness ==
    \E r \in Runs :
        /\ returnedOK(r) /\ ctxDone[r]
        /\ writers(r) # {}
        /\ result[r].Links.External = 1
        /\ result[r].Links.ExternalHosts = << >>
        /\ analysis[r].External = 0

\* two calls that returned a result with a nil error and were given the same
\* input: the URL, the body read, the links with the transport's answers, and
\* a context that was not cancelled
sameInput(r1, r2) ==
    /\ returnedOK(r1) /\ returnedOK(r2)
    /\ ~ctxDone[r1] /\ ~ctxDone[r2]
    /\ targetURL[r1] = targetURL[r2]
    /\ content[r1] = content[r2]
    /\ links[r1] = links[r2]

\* C13: two calls on the same fetched bytes with the same answers of the
\* transport return the same result, the order of BrokenLinks and
\* ExternalHosts included, however the link workers are scheduled
C13_SameInputSameResult ==
    \A r1, r2 \in Runs : sameInput(r1, r2) => result[r1] = result[r2]

\* two such calls on the page with two external links have returned the two
\* hosts in different orders
C13_Witness ==
    \E r1, r2 \in Runs :
        /\ sameInput(r1, r2)
        /\ result[r1].Links.ExternalHosts = << << "b" >>, << >> >>
        /\ result[r2].Links.ExternalHosts = << << >>, << "b" >> >>

\* extractLinks of call r appends a link
appendsLink(r) == Len(links'[r]) = Len(links[r]) + 1

\* C15: the memo cache is not shared between calls: the IsAccessible of a link
\* that is probed in principle is the outcome of a probe the same call made,
\* so its resolved URL is among the probes of the call
C15_ProbedByOwnCall ==
    [][\A r \in Runs :
          (appendsLink(r) /\ nextTarget(r).kind = "probe") =>
              \E k \in DOMAIN probed'[r] : probed'[r][k] = nextTarget(r).url]_vars

\* the second call has built the links of the page with a link to http://b/x
\* without a probe of its own, the first call having probed it
C15_Witness ==
    /\ content[2] = BodyMixed
    /\ Len(links[2]) = 2
    /\ probed[2] = << >>
    /\ probed[1] = << hrefExternal >>

\* C17: nothing is retried: a call that passes validation issues one GET for
\* the target URL, no URL is probed twice by a call and no link more than
\* once, and a call that has failed issues nothing more
C17_NoRetries ==
    /\ [](\A r \in Runs :
             /\ gets[r] = (IF pc[r] = "idle" \/ err[r] = "URL validation failed" THEN 0 ELSE 1)
             /\ \A i, j \in DOMAIN probed[r] : probed[r][i] = probed[r][j] => i = j
             /\ Len(probed[r]) <= Len(links[r]) + (IF pc[r] = "probing" THEN 1 ELSE 0))
    /\ [][\A r \in Runs :
             pc[r] \in { "failed", "done" } => gets'[r] = gets[r] /\ probed'[r] = probed[r]]_vars

\* one call has returned the network error of its only GET, the other has
\* returned the page whose links both failed the one probe made for them
C17_Witness ==
    \E r1, r2 \in Runs :
        /\ pc[r1] = "failed" /\ err[r1] = "network error" /\ gets[r1] = 1
        /\ returnedOK(r2) /\ gets[r2] = 1
        /\ content[r2] = BodyDuplicate
        /\ Len(probed[r2]) = 1
        /\ \A i \in DOMAIN links[r2] : ~links[r2][i].IsAccessible

\* the links among S that are not accessible
inaccessibleOf(r, S) == { i \in S : ~links[r][i].IsAccessible }

\* seq lists the raw hrefs of the links B of call r, each once, in some order
listsHrefs(seq, r, B) ==
    /\ Len(seq) = Cardinality(B)
    /\ \E f \in [ 1..Len(seq) -> B ] :
          /\ \A k, m \in 1..Len(seq) : f[k] = f[m] => k = m
          /\ \A k \in 1..Len(seq) : seq[k] = links[r][f[k]].URL

\* C18: in a returned summary Inaccessible equals len(BrokenLinks) and the
\* number of counted links that are not accessible, and BrokenLinks holds
\* the raw hrefs of exactly those links: S is the set of the links counted
C18_BrokenLinksMatchInaccessible ==
    \A r \in Runs :
        returnedOK(r) =>
            LET la == result[r].Links
            IN  /\ la.Inaccessible = Len(la.BrokenLinks)
                /\ \E S \in SUBSET DOMAIN links[r] :
                      /\ Cardinality(S) = la.Internal + la.External
                      /\ la.Inaccessible = Cardinality(inaccessibleOf(r, S))
                      /\ listsHrefs(la.BrokenLinks, r, inaccessibleOf(r, S))

\* a cancelled call has returned a summary with an inaccessible link counted
\* and no broken link listed
C18_Witness ==
    \E r \in Runs :
        /\ returnedOK(r) /\ ctxDone[r]
        /\ result[r].Links.Inaccessible = 1
        /\ result[r].Links.BrokenLinks = << >>

\* the hosts of the external links among S whose URL parses
externalHostsOf(r, S) ==
    { Parse(links[r][i].URL).Host :
        i \in { j \in S : ~links[r][j].IsInternal /\ Parse(links[r][j].URL).ok } }

\* C19: in a returned summary ExternalHosts holds no host twice and holds the
\* host of every link counted as external, S being the set of the links
\* counted; stated of the return of analyzeLinkAccessibility
C19_ExternalHostsComplete ==
    [][\A r \in Runs :
          (pc[r] = "joining" /\ pc'[r] = "done") =>
              LET la == result'[r].Links
              IN  /\ \A k, m \in DOMAIN la.ExternalHosts :
                        la.ExternalHosts[k] = la.ExternalHosts[m] => k = m
                  /\ \E S \in SUBSET DOMAIN links[r] :
                        /\ Cardinality({ i \in S : links[r][i].IsInternal }) = la.Internal
                        /\ Cardinality({ i \in S : ~links[r][i].IsInternal }) = la.External
                        /\ \A h \in externalHostsOf(r, S) :
                              \E k \in DOMAIN la.ExternalHosts : la.ExternalHosts[k] = h]_vars

\* a cancelled call has returned a summary with two external links counted
\* and one host listed
C19_Witness ==
    \E r \in Runs :
        /\ returnedOK(r) /\ ctxDone[r]
        /\ result[r].Links.External = 2
        /\ Len(result[r].Links.ExternalHosts) = 1

\* the Allow calls for the IP that returned true with a timestamp in the window
\* of length window that ends at time c
allowedIn(ip, c) ==
    { p \in Allows :
        /\ allows[p].pc = "returned" /\ allows[p].ok /\ allows[p].ip = ip
        /\ allows[p].at > c - window /\ allows[p].at <= c }

\* C20: for every IP and every interleaving of the Allow calls and the cleanup
\* loop, at most rate calls with timestamps in one window return true: a call
\* made when rate calls of the window were allowed returns false
C20_AtMostRatePerWindow ==
    /\ [](\A ip \in IPs : \A c \in 0..MaxTime : Cardinality(allowedIn(ip, c)) <= rate)
    /\ [][\A p \in Allows :
             ( /\ allows[p].pc = "looked up" /\ allows'[p].pc = "returned"
               /\ Cardinality(allowedIn(allows[p].ip, now)) >= rate )
                 => ~allows'[p].ok]_vars

\* with rate 1 two calls for one IP have returned true at the same time, the
\* visitor of the first having been deleted before the call recorded itself
C20_Witness ==
    /\ rate = 1
    /\ \E p, q \in Allows :
          /\ p # q
          /\ allows[p].pc = "returned" /\ allows[p].ok
          /\ allows[q].pc = "returned" /\ allows[q].ok
          /\ allows[p].ip = allows[q].ip
          /\ allows[p].at = allows[q].at
          /\ allows[p].visitor # allows[q].visitor

\* the request history the limiter holds for an IP: whether rl.visitors has an
\* entry for it, and the requests of that visitor
history(ip) ==
    IF ip \in DOMAIN visitors
    THEN [ exists |-> TRUE, requests |-> requests[visitors[ip]] ]
    ELSE [ exists |-> FALSE, requests |-> << >> ]

\* C21: rate limiting is per IP: no Visitor is used for two IPs, a step of an
\* Allow(ip1) call leaves the history of every other IP as it was, and a call
\* for an IP none of whose calls was allowed in the window returns true however
\* many calls were made for other IPs
C21_PerIP ==
    /\ [](\A p, q \in Allows :
            ( /\ allows[p].visitor # 0
              /\ allows[p].visitor = allows[q].visitor ) => allows[p].ip = allows[q].ip)
    /\ [](\A p \in Allows : \A ip \in DOMAIN visitors :
            visitors[ip] = allows[p].visitor => allows[p].ip = ip)
    /\ [][\A p \in Allows :
             allows'[p] # allows[p]
                 => \A ip \in IPs \ { allows'[p].ip } : history(ip)' = history(ip)]_vars
    /\ [][\A p \in Allows :
             ( /\ allows[p].pc = "looked up" /\ allows'[p].pc = "returned"
               /\ allowedIn(allows[p].ip, now) = {} )
                 => allows'[p].ok]_vars

\* TestRateLimiterDifferentIPs: with rate 1 a call for the first IP was allowed
\* and another refused, and a call for the second IP was allowed at the same
\* time, the second IP having a history of its own
C21_Witness ==
    /\ rate = 1
    /\ \E p, q, r \in Allows :
          /\ allows[p].pc = "returned" /\ allows[p].ok /\ allows[p].ip = "192.168.1.1"
          /\ allows[q].pc = "returned" /\ ~allows[q].ok /\ allows[q].ip = "192.168.1.1"
          /\ allows[r].pc = "returned" /\ allows[r].ok /\ allows[r].ip = "192.168.1.2"
          /\ allows[q].at = allows[r].at
          /\ history("192.168.1.1").requests = << allows[p].at >>
          /\ history("192.168.1.2").requests = << allows[r].at >>

\* C22: an Analysis starts with RetryCount 0, RetryCount is the number of
\* MarkAsRetrying calls made on it (each adds one, no other method changes it),
\* and CanRetry(max) answers RetryCount < max, so false after max MarkAsRetrying
\* calls
C22_RetryCount ==
    call.fn = "Analysis" =>
        /\ call.analysis.RetryCount = Count(call.log, "MarkAsRetrying")
        /\ call.log = << >> => call.analysis.RetryCount = 0
        /\ ( call.log # << >> /\ call.log[Len(call.log)] = "CanRetry" ) =>
               /\ call.bool = (call.analysis.RetryCount < call.maxRetries)
               /\ Count(call.log, "MarkAsRetrying") >= call.maxRetries => ~call.bool

\* TestCanRetry: after three MarkAsRetrying calls CanRetry(3) has answered false
C22_Witness ==
    /\ call.fn = "Analysis"
    /\ call.log = << "MarkAsRetrying", "MarkAsRetrying", "MarkAsRetrying", "CanRetry" >>
    /\ call.maxRetries = 3
    /\ call.analysis.RetryCount = 3
    /\ ~call.bool

\* the cache holds a result for the URL that has not expired
cacheHasResult(url) ==
    /\ cacheKey(url) \in DOMAIN cacheRepo
    /\ cacheRepo[cacheKey(url)].expires > clock

\* the rows of the URL in the repository that no other row of the URL is
\* younger than
latestRecords(url) ==
    { row \in Range(analysisRepo) :
        row.URL = url /\ ~\E other \in Range(analysisRepo) :
                             other.URL = url /\ other.CreatedAt > row.CreatedAt }

\* the record is completed with a result and younger than cacheTTL
completedAndYoung(row) ==
    row.Status = "completed" /\ ~row.Result.isNil /\ clock - row.CreatedAt < cacheTTL

\* the steps of the synchronous AnalyzeURL call c at its two lookups
cacheLookupStep(c) == ucalls[c].pc = "idle" /\ ucalls'[c].fn = "AnalyzeURL"

repoLookupStep(c) == ucalls[c].pc = "get by url" /\ ucalls'[c].pc # "get by url"

\* C23: a synchronous AnalyzeURL whose cache lookup finds a result, or whose
\* repository lookup finds the latest record of the URL completed with a result
\* and younger than cacheTTL, returns that result with a nil error, having called
\* the analyzer and created a record zero times; a call that invoked the analyzer
\* missed at both lookups
C23_HitsSkipAnalyzer ==
    /\ [][\A c \in UseCaseCalls :
            /\ ( cacheLookupStep(c) /\ cacheHasResult(ucalls'[c].url) ) =>
                  /\ ucalls'[c].pc = "returned"
                  /\ ucalls'[c].error = NoError
                  /\ ucalls'[c].ret.Status = "completed"
                  /\ ucalls'[c].ret.Result = cacheRepo[cacheKey(ucalls'[c].url)].value
                  /\ analysisRepo' = analysisRepo
            /\ ( cacheLookupStep(c) /\ ~cacheHasResult(ucalls'[c].url) ) =>
                  ucalls'[c].pc = "get by url"
            /\ ( /\ repoLookupStep(c)
                 /\ latestRecords(ucalls[c].url) # { }
                 /\ \A row \in latestRecords(ucalls[c].url) : completedAndYoung(row) ) =>
                  /\ ucalls'[c].pc = "returned"
                  /\ ucalls'[c].error = NoError
                  /\ ucalls'[c].ret \in latestRecords(ucalls[c].url)
                  /\ analysisRepo' = analysisRepo
            /\ ( /\ repoLookupStep(c)
                 /\ \A row \in latestRecords(ucalls[c].url) : ~completedAndYoung(row) ) =>
                  ucalls'[c].pc = "create"
            /\ ( ucalls[c].fn = "AnalyzeURL"
                 /\ ucalls[c].pc \in { "get by url", "returned" } ) =>
                  /\ ucalls'[c].invoked = ucalls[c].invoked
                  /\ ucalls'[c].created = ucalls[c].created]_vars
    /\ [](\A c \in UseCaseCalls :
            ucalls[c].fn = "AnalyzeURL" =>
                /\ ucalls[c].found \in { "cache", "repo" } =>
                      ucalls[c].invoked = 0 /\ ucalls[c].created = 0
                /\ ucalls[c].invoked > 0 => ucalls[c].found = "none"
                /\ ucalls[c].created > 0 => ucalls[c].found = "none"
                /\ ucalls[c].pc \in { "create", "mark as processing", "analyzing" } =>
                      ucalls[c].found = "none")

\* a call analysed the URL and its result did not reach the cache; a later
\* call missed the cache, found the record of the first in the repository and
\* returned it, the analyzer not invoked and no record created
C23_Witness ==
    \E c, d \in UseCaseCalls :
        /\ ucalls[c].fn = "AnalyzeURL" /\ ucalls[c].pc = "returned"
        /\ ucalls[c].invoked = 1 /\ ucalls[c].created = 1
        /\ ucalls[d].fn = "AnalyzeURL" /\ ucalls[d].pc = "returned"
        /\ ucalls[d].found = "repo"
        /\ ucalls[d].invoked = 0 /\ ucalls[d].created = 0
        /\ ucalls[d].error = NoError
        /\ ucalls[d].ret = analysisRepo[c]
        /\ ucalls[d].ret.Result = AnalyzerSuccess.result
        /\ ~cacheHasResult(ucalls[d].url)

\* SubmitAnalysisJob accepted the analysis of call c: the record is created and
\* the goroutine started
accepted(c) == ucalls[c].fn = "SubmitAnalysisJob" /\ ucalls[c].pc # "returned"

settledStatuses == { "completed", "failed" }

\* the status of the record of the analysis of call c, "" when there is none
recordStatus(c) == IF c \in DOMAIN analysisRepo THEN analysisRepo[c].Status ELSE ""

\* C24: every analysis SubmitAnalysisJob accepted is eventually completed or
\* failed, both the Analysis in memory and its record in the repository
C24_AcceptedEventuallySettled ==
    \A c \in UseCaseCalls :
        accepted(c) ~> ( /\ ucalls[c].analysis.Status \in settledStatuses
                         /\ recordStatus(c) \in settledStatuses )

\* the goroutine of an accepted analysis has ended after the expiry of its
\* context: the Analysis in memory is failed and its record is still pending
C24_Witness ==
    \E c \in UseCaseCalls :
        /\ accepted(c)
        /\ ucalls[c].pc = "done"
        /\ ucalls[c].deadline
        /\ ucalls[c].analysis.Status = "failed"
        /\ recordStatus(c) = "pending"

\* the status changes pending -> processing -> completed or failed
statusEdges ==
    { << "pending", "processing" >>, << "processing", "completed" >>,
      << "processing", "failed" >> }

\* C25: the status of an analysis processed asynchronously, in memory and in its
\* record, changes only from pending to processing and from processing to
\* completed or failed, and does not change once completed or failed
C25_StatusPath ==
    [][\A c \in UseCaseCalls :
          accepted(c) =>
              /\ \/ ucalls'[c].analysis.Status = ucalls[c].analysis.Status
                 \/ << ucalls[c].analysis.Status, ucalls'[c].analysis.Status >> \in statusEdges
              /\ \/ recordStatus(c)' = recordStatus(c)
                 \/ << recordStatus(c), recordStatus(c)' >> \in statusEdges]_vars

\* the goroutine of an accepted analysis has called the analyzer and ended,
\* the analysis completed in memory and in its record: it was pending until
\* then
C25_Witness ==
    \E c \in UseCaseCalls :
        /\ accepted(c)
        /\ ucalls[c].pc = "done"
        /\ ucalls[c].invoked = 1
        /\ ucalls[c].analysis.Status = "completed"
        /\ recordStatus(c) = "completed"

\* the primary fetch of call r was answered with a status in 200..299
answered2xx(r) ==
    /\ resp[r].kind = "response"
    /\ resp[r].StatusCode >= 200 /\ resp[r].StatusCode <= 299

\* C26: a call whose primary fetch is answered with a status in 200..299 does
\* not return an HTTP status error and goes on to read the body, and an HTTP
\* status error is returned only for a status outside 200..299
C26_Every2xxIsSuccess ==
    \A r \in Runs :
        /\ answered2xx(r) => ~(pc[r] = "failed" /\ err[r] = "HTTP status")
        /\ err[r] = "HTTP status" => answeredNon2xx(r)

\* the primary fetch of a call was answered with 204 and the call returned an
\* HTTP status error with the partial result, no body read
C26_Witness ==
    \E r \in Runs :
        /\ resp[r] = Response(204)
        /\ pc[r] = "failed" /\ err[r] = "HTTP status"
        /\ result[r] = PartialResult(204)
        /\ content[r] = EmptyBody

\* the text "HTTP N" for a status of three digits
httpN(n) ==
    << "H", "T", "T", "P", " ", DecimalDigits[(n \div 100) + 1],
       DecimalDigits[((n \div 10) % 10) + 1], DecimalDigits[(n % 10) + 1] >>

\* the messages of the statuses that have one of their own
specificMessages ==
    { << 400, << "b", "a", "d", " ", "r", "e", "q", "u", "e", "s", "t" >> >>,
      << 401,
         << "a", "u", "t", "h", "e", "n", "t", "i", "c", "a", "t", "i", "o", "n",
            " ", "r", "e", "q", "u", "i", "r", "e", "d" >> >>,
      << 403,
         << "w", "e", "b", "s", "i", "t", "e", " ", "b", "l", "o", "c", "k", "e",
            "d", " ", "a", "c", "c", "e", "s", "s", " ", "(", "l", "i", "k", "e",
            "l", "y", " ", "b", "o", "t", " ", "p", "r", "o", "t", "e", "c", "t",
            "i", "o", "n", ")" >> >>,
      << 404, << "p", "a", "g", "e", " ", "n", "o", "t", " ", "f", "o", "u", "n", "d" >> >>,
      << 429,
         << "r", "a", "t", "e", " ", "l", "i", "m", "i", "t", " ", "e", "x", "c",
            "e", "e", "d", "e", "d" >> >> }

\* C27: getHTTPStatusMessage gives "server error" for every status 500..599,
\* the message of its own for 400, 401, 403, 404 and 429, and "HTTP N" for every
\* other status N
C27_StatusMessages ==
    ( call.fn = "getHTTPStatusMessage" /\ call.returned ) =>
        IF call.statusCode >= 500 /\ call.statusCode <= 599
        THEN call.message = << "s", "e", "r", "v", "e", "r", " ", "e", "r", "r", "o", "r" >>
        ELSE IF call.statusCode \in { 400, 401, 403, 404, 429 }
        THEN << call.statusCode, call.message >> \in specificMessages
        ELSE call.message = httpN(call.statusCode)

\* getHTTPStatusMessage(501) has returned "HTTP 501"
C27_Witness ==
    /\ call.fn = "getHTTPStatusMessage" /\ call.returned
    /\ call.statusCode = 501
    /\ call.message = << "H", "T", "T", "P", " ", "5", "0", "1" >>

\* C28: a probed link is accessible exactly when the transport returned a
\* response with a status in 200..399 (not on a transport error, a nil response
\* or another status), and that outcome is stored in the cache under the
\* resolved URL and returned
C28_AccessibleIff2xx3xx ==
    ( call.fn = "checkLinkAccessibility" /\ call.returned /\ call.requests = 1 ) =>
        /\ call.bool = ( /\ call.answer.kind = "response"
                         /\ call.answer.StatusCode >= 200
                         /\ call.answer.StatusCode <= 399 )
        /\ call.stores = 1
        /\ call.fullURL \in DOMAIN urlCache
        /\ urlCache[call.fullURL] = call.bool

\* a probe answered with 399 has made the link accessible: the call returned
\* true and the cache holds true for the resolved URL
C28_Witness ==
    /\ call.fn = "checkLinkAccessibility" /\ call.returned /\ call.requests = 1
    /\ call.answer = Response(399)
    /\ call.bool
    /\ urlCache[call.fullURL]

\* the workers of call r that hold a slot of the semaphore
slotHolders(r) == { i \in DOMAIN wpc[r] : wpc[r][i] \in { "holding", "writing" } }

\* the probes of call r in flight
probesInFlight(r) == IF pc[r] = "probing" THEN 1 ELSE 0

\* C29: a probe is in flight for a call only while a link worker of the call
\* holds a slot of the semaphore, the probes in flight for a page are at most
\* the size of the semaphore, and a probe is issued only after the Parsing
\* stage, when the workers run
C29_ProbesByWorkers ==
    /\ [](\A r \in Runs :
            /\ probesInFlight(r) <= Cardinality(slotHolders(r))
            /\ probesInFlight(r) <= semaphoreSize(maxConcurrentChecks))
    /\ [][\A r \in Runs : probed'[r] # probed[r] => pc[r] = "joining"]_vars

\* a probe is in flight for a call that is parsing: no worker is started and
\* no slot of the semaphore is taken
C29_Witness ==
    \E r \in Runs :
        /\ pc[r] = "probing"
        /\ probed[r] # << >>
        /\ wpc[r] = NoWorkers
        /\ semaphore = 0

\* C30: once the context of a call is cancelled the call starts no link probe
\* any more, so it does not wait for the links left to be probed
C30_NoProbeAfterCancel ==
    [][\A r \in Runs : ctxDone[r] => probed'[r] = probed[r]]_vars

\* a probe is in flight for a call whose context is cancelled, links of the
\* page being left to extract after it
C30_Witness ==
    \E r \in Runs :
        /\ ctxDone[r]
        /\ pc[r] = "probing"
        /\ probed[r] # << >>
        /\ Len(links[r]) + 1 < Len(anchorHrefs(content[r].nodes))

\* the link workers of every call have exited
allWorkersExited == \A r \in Runs : workersDone(r)

\* C31: with no cancellation analyzeLinkAccessibility terminates, whatever
\* the number of links and the capacity of the semaphore (a call that waits at
\* the join returns unless its context is cancelled), and when all workers
\* have exited every slot of the semaphore has been released.
C31_TerminatesAndReleases ==
    /\ [](allWorkersExited => semaphore = 0)
    /\ \A r \in Runs : (pc[r] = "joining" /\ ~ctxDone[r]) ~> (pc[r] = "done" \/ ctxDone[r])

\* a call with more links than slots has returned without cancellation, every
\* worker of the service has exited and no slot is taken
C31_Witness ==
    /\ allWorkersExited
    /\ semaphore = 0
    /\ \E r \in Runs :
           /\ pc[r] = "done" /\ ~ctxDone[r]
           /\ Len(links[r]) > semaphoreSize(maxConcurrentChecks)
           /\ linkSum(result[r]) = Len(links[r])

\* the document without the nodes deeper than MaxHTMLDepth
pruned(nodes) == SelectSeq(nodes, LAMBDA n : n.depth <= MaxHTMLDepth)

\* the document without the nodes deeper than MaxHTMLDepth, except a text
\* node that is the first child of an element at depth MaxHTMLDepth
prunedButFirstText(nodes) ==
    LET kept == { i \in 1..Len(nodes) :
                    \/ nodes[i].depth <= MaxHTMLDepth
                    \/ /\ i > 1
                       /\ nodes[i].Type = "text"
                       /\ nodes[i].depth = MaxHTMLDepth + 1
                       /\ nodes[i - 1].depth = MaxHTMLDepth
                       /\ nodes[i - 1].Type = "element" }
        RECURSIVE pick(_)
        pick(i) == IF i > Len(nodes) THEN << >>
                   ELSE IF i \in kept THEN << nodes[i] >> \o pick(i + 1)
                   ELSE pick(i + 1)
    IN  pick(1)

\* the elements with that tag at depth <= MaxHTMLDepth
headingCount(nodes, tag) ==
    Cardinality({ i \in 1..Len(nodes) :
                    /\ nodes[i].Type = "element" /\ nodes[i].Data = tag
                    /\ nodes[i].depth <= MaxHTMLDepth })

\* Headings[t] is the number of t elements at depth <= MaxHTMLDepth and a tag
\* that does not occur there has no entry; the links are those of the <a>
\* elements at depth <= MaxHTMLDepth, deeper nodes being ignored
headingsAndLinksBounded ==
    /\ (call.fn = "extractHeadings" /\ call.returned) =>
           /\ DOMAIN call.headings = { tag \in HeadingTags : headingCount(call.doc, tag) > 0 }
           /\ \A tag \in DOMAIN call.headings :
                  call.headings[tag] = headingCount(call.doc, tag)
           /\ call.headings = extractHeadings(pruned(call.doc))
    /\ (call.fn = "extractLinks" /\ call.returned) =>
           /\ Len(call.hrefs) = AnchorCount(call.doc)
           /\ call.hrefs = anchorHrefs(pruned(call.doc))

\* C32, as stated: heading counting, link extraction and login form
\* detection process every element at depth <= MaxHTMLDepth and ignore every
\* node deeper than that.
C32_DeeperNodesIgnored ==
    /\ headingsAndLinksBounded
    /\ (call.fn = "hasLoginForm" /\ call.returned) =>
           call.bool = hasLoginForm(pruned(call.doc))

\* C32, amended: the same, except that login form detection reads the text
\* of the first child of an element at depth MaxHTMLDepth, a node at depth
\* MaxHTMLDepth + 1; every other node deeper than MaxHTMLDepth is ignored.
C32_DeeperIgnoredButFirstText ==
    /\ headingsAndLinksBounded
    /\ (call.fn = "hasLoginForm" /\ call.returned) =>
           call.bool = hasLoginForm(prunedButFirstText(call.doc))

\* extractHeadings has counted a heading at depth MaxHTMLDepth and left out
\* the headings below it
C32_Witness ==
    /\ call.fn = "extractHeadings" /\ call.returned
    /\ \E i, j \in 1..Len(call.doc) :
           /\ call.doc[i].Data = "h2" /\ call.doc[i].depth = MaxHTMLDepth
           /\ call.doc[j].Data = "h3" /\ call.doc[j].depth = MaxHTMLDepth + 1
    /\ call.headings = ("h2" :> 1)

\* the host the href targets: that of the href resolved against the base URL
targetHost(href, baseURL) == ResolveReference(Parse(baseURL), Parse(href)).Host

\* the href of the call targets a host other than that of the base URL
targetsOtherHost ==
    /\ Parse(call.href).ok /\ Parse(call.baseURL).ok
    /\ targetHost(call.href, call.baseURL) # Parse(call.baseURL).Host

\* C33: no href whose resolved target host differs from the host of the base
\* URL is classified internal, and such a link is probed at its own host.
C33_InternalTargetsOwnHost ==
    /\ returnedCall("isInternalLink") => ~(targetsOtherHost /\ call.bool)
    /\ (call.fn = "checkLinkAccessibility" /\ call.requests > 0 /\ targetsOtherHost) =>
           Parse(call.fullURL).Host = targetHost(call.href, call.baseURL)

\* the protocol-relative href "//b/x" on a page of host a was probed at host a
C33_Witness ==
    /\ returnedCall("checkLinkAccessibility")
    /\ call.href = << "/", "/", "b", "/", "x" >>
    /\ call.baseURL = urlValid
    /\ call.requests = 1
    /\ Parse(call.fullURL).Host = << "a" >>

\* the step is the return of the analyzer to a call of the use case, with a
\* nil error, and the call stores the result it was given under the key of
\* its URL
setAfterSuccess(c) ==
    /\ ucalls[c].pc \in { "analyzing", "async analyzing" }
    /\ ucalls'[c].invoked = ucalls[c].invoked + 1
    /\ ucalls'[c].analysis.Status = StatusCompleted
    /\ ucalls'[c].analysis.Error = ""
    /\ cacheRepo' = cacheSet(cacheKey(ucalls[c].url), ucalls'[c].analysis.Result, cacheTTL)

\* the result is that of a page fetched with a 2xx status
completeResult(res) == ~res.isNil /\ res.StatusCode \in 200..299

\* C34: the cache is written only when the analyzer has returned a nil error
\* to the synchronous or the asynchronous use case, with the result it
\* returned; so every cached result, and every result served from the cache
\* as completed, is that of a successful analysis.
C34_CacheOnlySuccess ==
    /\ [][cacheRepo' # cacheRepo => \E c \in UseCaseCalls : setAfterSuccess(c)]_vars
    /\ [](\A key \in DOMAIN cacheRepo : completeResult(cacheRepo[key].value))
    /\ [](\A c \in UseCaseCalls :
             ucalls[c].found = "cache" =>
                 /\ ucalls[c].analysis.Status = StatusCompleted
                 /\ completeResult(ucalls[c].analysis.Result))

\* the analyzer failed for one call, which cached nothing, and the other
\* call cached the result of its successful analysis
C34_Witness ==
    \E c1, c2 \in UseCaseCalls :
        /\ ucalls[c1].invoked = 1 /\ ucalls[c1].analysis.Status = StatusFailed
        /\ cacheKey(ucalls[c1].url) \notin DOMAIN cacheRepo
        /\ ucalls[c2].invoked = 1 /\ ucalls[c2].analysis.Status = StatusCompleted
        /\ cacheKey(ucalls[c2].url) \in DOMAIN cacheRepo
        /\ cacheRepo[cacheKey(ucalls[c2].url)].value = ucalls[c2].analysis.Result

\* C35: a Dequeue on an empty pending queue returns no job and no error; on
\* any other it removes exactly one job from the pending queue, a job such
\* that no pending job enqueued at the same time has a higher Priority; and the
\* job a Dequeue returned is in the processing set.
C35_DequeueByPriority ==
    /\ [][\A d \in Dequeues :
             (dequeues[d].pc = "idle" /\ dequeues'[d].pc # "idle") =>
                 IF DOMAIN pendingQueue = {}
                 THEN /\ dequeues'[d].pc = "returned"
                      /\ dequeues'[d].job.isNil
                      /\ dequeues'[d].error = NoError
                      /\ pendingQueue' = pendingQueue
                 ELSE /\ dequeues'[d].job \in DOMAIN pendingQueue
                      /\ DOMAIN pendingQueue' = DOMAIN pendingQueue \ { dequeues'[d].job }
                      /\ \A other \in DOMAIN pendingQueue :
                             jobs[other.ID].enqueuedAt = jobs[dequeues'[d].job.ID].enqueuedAt
                                 => other.Priority <= dequeues'[d].job.Priority]_vars
    /\ [](\A d \in Dequeues :
             (dequeues[d].pc = "returned" /\ ~dequeues[d].job.isNil) =>
                 dequeues[d].job \in processingSet)

\* a Dequeue has returned the job of higher priority of two enqueued at the
\* same time, and the job is in neither the pending queue nor the processing set
C35_Witness ==
    \E d \in Dequeues :
        /\ dequeues[d].pc = "returned" /\ ~dequeues[d].job.isNil
        /\ \E other \in DOMAIN pendingQueue :
               /\ jobs[other.ID].enqueuedAt = jobs[dequeues[d].job.ID].enqueuedAt
               /\ other.Priority < dequeues[d].job.Priority
        /\ dequeues[d].job \notin DOMAIN pendingQueue
        /\ dequeues[d].job \notin processingSet

\* C36: a job of EnqueueWithDelay leaves the retry queue only when its delay
\* has elapsed, and then enters the pending queue; a RequeueRetryJobs at or
\* after that time moves it.
C36_DelayRespected ==
    [][\A j \in Jobs :
          /\ (jobs[j].job \in DOMAIN retryQueue /\ jobs[j].job \notin DOMAIN retryQueue') =>
                 (qnow >= jobs[j].dueAt /\ jobs[j].job \in DOMAIN pendingQueue')
          /\ (RequeueRetryJobs /\ jobs[j].job \in DOMAIN retryQueue
                 /\ qnow >= jobs[j].dueAt) =>
                 (jobs[j].job \notin DOMAIN retryQueue' /\ jobs[j].job \in DOMAIN pendingQueue')]_vars

\* a job of priority 1 enqueued with a delay of 2 seconds is in the pending
\* queue before the 2 seconds are over
C36_Witness ==
    \E j \in Jobs :
        /\ jobs[j].submitted = "EnqueueWithDelay"
        /\ jobs[j].job.Priority = 1
        /\ jobs[j].dueAt = Epoch + 2
        /\ qnow = Epoch
        /\ jobs[j].requeued
        /\ jobs[j].job \in DOMAIN pendingQueue

\* the versions among those that Up found not recorded when it started
pendingVersions(S) == { v \in S : v \notin up.applied }

\* the sequence holds these versions, each once, in strictly ascending order
ascendingOf(seq, S) ==
    /\ Range(seq) = S
    /\ \A i, j \in 1..Len(seq) : i < j => seq[i] < seq[j]

\* C37: Up applies exactly the migrations of the files whose version was not
\* recorded, in strictly ascending order of version, each in one step with its
\* version record; no migration is applied twice; when a migration fails Up
\* returns an error with the migrations before it applied and recorded, and
\* neither it nor a later one; an Up with every file recorded changes nothing.
C37_UpAppliesPending ==
    /\ [](/\ Range(schema) = schemaMigrations
          /\ Len(schema) = Cardinality(schemaMigrations)
          /\ up.pc = "returned" =>
                 IF up.error = NoError
                 THEN /\ ascendingOf(up.done, pendingVersions(Range(up.migrations)))
                      /\ schemaMigrations = up.applied \cup Range(up.migrations)
                 ELSE /\ up.i \in 1..Len(up.migrations)
                      /\ ascendingOf(up.done,
                             pendingVersions({ up.migrations[k] : k \in 1..(up.i - 1) }))
                      /\ schemaMigrations = up.applied \cup Range(up.done)
                      /\ \A k \in up.i..Len(up.migrations) :
                             up.migrations[k] \in schemaMigrations
                                 <=> up.migrations[k] \in up.applied)
    /\ [][(schema' # schema \/ schemaMigrations' # schemaMigrations) =>
             \E version \in Versions \ schemaMigrations :
                 /\ version \in migrationFiles
                 /\ schema' = Append(schema, version)
                 /\ schemaMigrations' = schemaMigrations \cup { version }]_vars
    /\ [][(up.pc # "loop" /\ up'.pc = "loop") =>
             /\ Range(up'.migrations) = migrationFiles
             /\ up'.applied = schemaMigrations]_vars

\* the first Up applied the migrations 1 and 3 and a second Up, with the file
\* of version 2 added, has applied that one alone
C37_Witness ==
    /\ up.pc = "returned" /\ up.error = NoError /\ up.calls = 2
    /\ up.applied = { 1, 3 }
    /\ up.done = << 2 >>
    /\ schema = << 1, 3, 2 >>

\* C38: ExternalHosts of a returned summary holds only non-empty host names.
C38_NoEmptyExternalHost ==
    \A r \in Runs :
        returnedOK(r) =>
            \A k \in DOMAIN result[r].Links.ExternalHosts :
                result[r].Links.ExternalHosts[k] # << >>

\* a call on the page with the links http://b/x and mailto:t has returned,
\* not cancelled, both links counted as external and the host "" listed
C38_Witness ==
    \E r \in Runs :
        /\ returnedOK(r) /\ ~ctxDone[r]
        /\ content[r] = BodyMixed
        /\ result[r].Links.External = 2
        /\ Len(result[r].Links.ExternalHosts) = 2
        /\ \E k \in DOMAIN result[r].Links.ExternalHosts :
               result[r].Links.ExternalHosts[k] = << >>

====
